---- MODULE Spec2Model ----
(***************************************************************************)
(* Model of the maptoposter rendering pipeline:                            *)
(*   poster_util.py        get_crop_limits, get_edge_colors_by_type,       *)
(*                         get_edge_widths_by_type, get_coordinates        *)
(*   fetch_data.py         fetch_graph, fetch_features                     *)
(*   map_to_poster_main.py create_poster and the __main__ driver           *)
(*                                                                         *)
(* Representation choices                                                  *)
(*   - Python floats are exact rationals <<num, den>> with den > 0 in      *)
(*     lowest terms.                                                       *)
(*   - Line widths and sleep durations are integers in tenths              *)
(*     (1.2 -> 12, time.sleep(0.5) -> 5).                                  *)
(*   - Python None / a value is the empty / one-element sequence.          *)
(*   - An OSM tag value is [list, v]: absent = [FALSE, <<>>], the scalar s *)
(*     = [FALSE, <<s>>], a list = [TRUE, <<...>>].  Tag values are         *)
(*     non-empty strings, as OSM delivers them.                            *)
(*   - A cache key f"a_{b}_{c}" is the tuple of its interpolated parts.    *)
(***************************************************************************)
EXTENDS Integers, Sequences, FiniteSets, TLC

VARIABLES
    cache,      \* CacheStore: key -> payload (cache_get / cache_set)
    lastCall,   \* the last direct call of a function and what it did
    stored,     \* history: call arguments -> payload that call fetched and stored
    pc,         \* position of the __main__ driver / create_poster
    inp,        \* command-line arguments of the run
    coords,     \* __main__: coords (None or the centre point)
    themesLeft, \* __main__: themes still to generate
    now,        \* elapsed time.sleep time, in tenths
    reqLog,     \* remote requests issued so far: [kind, t, ok]
    osm,        \* what the OpenStreetMap services hold for the place
    disk,       \* how the cache_set calls of the run end, one of SetOutcomes
    loc,        \* create_poster locals
    draws,      \* draw commands emitted on the axes, in call order
    saved,      \* number of posters written by plt.savefig
    err         \* exception that ended the run ("" if none)

vars == <<cache, lastCall, stored, pc, inp, coords, themesLeft, now, reqLog,
          osm, disk, loc, draws, saved, err>>

None == <<>>
Some(x) == <<x>>

-----------------------------------------------------------------------------
(* Exact arithmetic standing for Python float arithmetic.                  *)

Abs(n) == IF n < 0 THEN -n ELSE n

RECURSIVE GCD(_, _)
GCD(a, b) == IF b = 0 THEN a ELSE GCD(b, a % b)

RNorm(n, d) ==
    LET s == IF d < 0 THEN -1 ELSE 1
        g == GCD(Abs(n), Abs(d))
    IN  <<(s * n) \div g, (s * d) \div g>>

R(n) == <<n, 1>>
RAdd(a, b) == RNorm(a[1] * b[2] + b[1] * a[2], a[2] * b[2])
RSub(a, b) == RNorm(a[1] * b[2] - b[1] * a[2], a[2] * b[2])
RMul(a, b) == RNorm(a[1] * b[1], a[2] * b[2])
RDiv(a, b) == RNorm(a[1] * b[2], a[2] * b[1])
RLt(a, b)  == a[1] * b[2] < b[1] * a[2]
RLe(a, b)  == a[1] * b[2] <= b[1] * a[2]
RMin(a, b) == IF RLt(b, a) THEN b ELSE a
RMax(a, b) == IF RLt(a, b) THEN b ELSE a

-----------------------------------------------------------------------------
(* poster_util.get_crop_limits                                             *)

\* ox.projection.project_geometry(Point(lon, lat), to_crs=g_proj.graph["crs"]):
\* a planar stand-in for the library's projection of the centre point.
project_geometry(lat, lon, crs) ==
    IF crs = "utm" THEN <<R(500000 + 1000 * lon), R(1000 * lat)>>
    ELSE <<R(lon), R(lat)>>

\* Mutation of get_crop_limits: cuts the wrong axis (outward instead of
\* inward), so the shorter half-extent keeps the radius.
get_crop_limits_swapped(g_proj, center_lat_lon, fig, dist) ==
    LET center == project_geometry(center_lat_lon[1], center_lat_lon[2], g_proj.crs)
        aspect == RDiv(fig[1], fig[2])
        half_y == IF RLt(R(1), aspect) THEN dist ELSE RDiv(dist, aspect)
        half_x == IF RLt(R(1), aspect) THEN RMul(dist, aspect) ELSE dist
    IN  <<<<RSub(center[1], half_x), RAdd(center[1], half_x)>>,
          <<RSub(center[2], half_y), RAdd(center[2], half_y)>>>>

\* Mutation of get_crop_limits: the portrait branch divides instead of
\* multiplying, so the width/height ratio is no longer the aspect.
get_crop_limits_ratio(g_proj, center_lat_lon, fig, dist) ==
    LET center == project_geometry(center_lat_lon[1], center_lat_lon[2], g_proj.crs)
        aspect == RDiv(fig[1], fig[2])
        half_y == IF RLt(R(1), aspect) THEN RDiv(dist, aspect) ELSE dist
        half_x == IF RLt(R(1), aspect) THEN dist ELSE RDiv(dist, aspect)
    IN  <<<<RSub(center[1], half_x), RAdd(center[1], half_x)>>,
          <<RSub(center[2], half_y), RAdd(center[2], half_y)>>>>

\* fig is fig.get_size_inches() = <<fig_width, fig_height>>, dist the radius.
\* Returns <<<<x-min, x-max>>, <<y-min, y-max>>>>.
get_crop_limits(g_proj, center_lat_lon, fig, dist) ==
    LET center == project_geometry(center_lat_lon[1], center_lat_lon[2], g_proj.crs)
        center_x == center[1]
        center_y == center[2]
        aspect == RDiv(fig[1], fig[2])
        \* start from the requested radius, then cut inward to match aspect
        half_y == IF RLt(R(1), aspect) THEN RDiv(dist, aspect) ELSE dist
        half_x == IF RLt(R(1), aspect) THEN dist ELSE RMul(dist, aspect)
    IN  <<<<RSub(center_x, half_x), RAdd(center_x, half_x)>>,
          <<RSub(center_y, half_y), RAdd(center_y, half_y)>>>>

-----------------------------------------------------------------------------
(* poster_util.get_edge_colors_by_type / get_edge_widths_by_type           *)

\* The theme: colour role -> colour.
THEME ==
    [role \in {"bg", "text", "gradient_color", "water", "parks",
               "rail_heavy", "rail_light", "rail_special", "rail_service",
               "rail_default", "road_motorway", "road_primary",
               "road_secondary", "road_tertiary", "road_residential",
               "road_default"} |->
        CASE role = "bg"               -> "#F5EDE4"
          [] role = "text"             -> "#8B4513"
          [] role = "gradient_color"   -> "#F5EDE5"
          [] role = "water"            -> "#A8C4C4"
          [] role = "parks"            -> "#E8E0D0"
          [] role = "rail_heavy"       -> "#3B2F2F"
          [] role = "rail_light"       -> "#5C4A4A"
          [] role = "rail_special"     -> "#7A6262"
          [] role = "rail_service"     -> "#9C8585"
          [] role = "rail_default"     -> "#8B7575"
          [] role = "road_motorway"    -> "#A0522D"
          [] role = "road_primary"     -> "#B8653A"
          [] role = "road_secondary"   -> "#C9846A"
          [] role = "road_tertiary"    -> "#D9A08A"
          [] role = "road_residential" -> "#E5C4B0"
          [] role = "road_default"     -> "#D9A08B"]

Absent == [list |-> FALSE, v |-> <<>>]
Scalar(s) == [list |-> FALSE, v |-> <<s>>]
List(l) == [list |-> TRUE, v |-> l]

\* railway = data.get("railway"); if list: railway[0] if railway else None
\* highway = data.get("highway", "unclassified"); if list: highway[0] if
\* highway else "unclassified".  Result: None or Some(string).
first_value(tag) == IF tag.v = <<>> THEN None ELSE Some(tag.v[1])

\* One iteration of the loop of get_edge_colors_by_type.
edge_color(data) ==
    LET railway == first_value(data.railway)
        hw == first_value(data.highway)
        highway == IF hw = None THEN "unclassified" ELSE hw[1]
    IN  IF railway # None
        THEN LET r == railway[1] IN
             IF r \in {"rail", "subway"} THEN THEME["rail_heavy"]
             ELSE IF r \in {"light_rail", "tram"} THEN THEME["rail_light"]
             ELSE IF r \in {"narrow_gauge", "funicular", "monorail"} THEN THEME["rail_special"]
             ELSE IF r \in {"service", "yard", "siding"} THEN THEME["rail_service"]
             ELSE THEME["rail_default"]
        ELSE IF highway \in {"motorway", "motorway_link"} THEN THEME["road_motorway"]
             ELSE IF highway \in {"trunk", "trunk_link", "primary", "primary_link"} THEN THEME["road_primary"]
             ELSE IF highway \in {"secondary", "secondary_link"} THEN THEME["road_secondary"]
             ELSE IF highway \in {"tertiary", "tertiary_link"} THEN THEME["road_tertiary"]
             ELSE IF highway \in {"residential", "living_street", "unclassified"} THEN THEME["road_residential"]
             ELSE THEME["road_default"]

\* Mutation of edge_width: highway is classified before railway.
edge_width_highway_first(data) ==
    LET railway == first_value(data.railway)
        hw == first_value(data.highway)
    IN  IF hw # None
        THEN IF hw[1] \in {"motorway", "motorway_link"} THEN 12
             ELSE IF hw[1] \in {"trunk", "trunk_link", "primary", "primary_link"} THEN 10
             ELSE IF hw[1] \in {"secondary", "secondary_link"} THEN 8
             ELSE IF hw[1] \in {"tertiary", "tertiary_link"} THEN 6
             ELSE 4
        ELSE IF railway = None THEN 4
             ELSE IF railway[1] \in {"rail", "subway"} THEN 10
             ELSE IF railway[1] \in {"light_rail", "tram"} THEN 8
             ELSE IF railway[1] \in {"narrow_gauge", "funicular", "monorail"} THEN 6
             ELSE IF railway[1] \in {"service", "yard", "siding"} THEN 4
             ELSE 5

\* One iteration of the loop of get_edge_widths_by_type (tenths).
edge_width(data) ==
    LET railway == first_value(data.railway)
        hw == first_value(data.highway)
        highway == IF hw = None THEN "unclassified" ELSE hw[1]
    IN  IF railway # None
        THEN LET r == railway[1] IN
             IF r \in {"rail", "subway"} THEN 10
             ELSE IF r \in {"light_rail", "tram"} THEN 8
             ELSE IF r \in {"narrow_gauge", "funicular", "monorail"} THEN 6
             ELSE IF r \in {"service", "yard", "siding"} THEN 4
             ELSE 5
        ELSE IF highway \in {"motorway", "motorway_link"} THEN 12
             ELSE IF highway \in {"trunk", "trunk_link", "primary", "primary_link"} THEN 10
             ELSE IF highway \in {"secondary", "secondary_link"} THEN 8
             ELSE IF highway \in {"tertiary", "tertiary_link"} THEN 6
             ELSE 4

\* g.edges(data=True) is g.edges, in edge order.
get_edge_colors_by_type(g) == [i \in 1..Len(g.edges) |-> edge_color(g.edges[i])]

get_edge_widths_by_type(g) == [i \in 1..Len(g.edges) |-> edge_width(g.edges[i])]

-----------------------------------------------------------------------------
(* cache.py (cache_get, cache_set, CacheError, normalize_tags): the        *)
(* CacheStore of the specification, sections 4.1 and 6.                    *)

\* get(key) -> payload | absent
cache_get(c, key) == IF key \in DOMAIN c THEN Some(c[key]) ELSE None

\* set(key, payload) -> success | failure; ok says which.  A failed set
\* stores nothing.
cache_set(c, key, value, ok) == IF ok THEN (key :> value) @@ c ELSE c

\* How a cache_set call ends: "ok", or a failure that reaches the caller as
\* CacheError, or a failure that reaches it as another exception (OSError
\* stands for any exception that is not a CacheError).
SetOutcomes == {"ok", "CacheError", "OSError"}

\* Canonical, order-independent serialization of a tag filter given as the
\* sequence of its <<key, tag value>> items.
normalize_tags(tags) ==
    {<<tags[i][1], {tags[i][2].v[j] : j \in 1..Len(tags[i][2].v)}>> : i \in 1..Len(tags)}

-----------------------------------------------------------------------------
(* fetch_data.fetch_graph / fetch_features                                 *)
(* remote = [ok, data] is the outcome of the osmnx request (used only on a *)
(* cache miss), setOk the outcome of cache_set, one of SetOutcomes.  Only  *)
(* CacheError is caught around cache_set; any other exception reaches the  *)
(* outer "except Exception" and the call returns None.  The result records *)
(* the return value, the cache afterwards, the number of remote requests,  *)
(* the time slept and the number of cache_set calls.                       *)

GraphDelay == 5
FeaturesDelay == 3
GeocodeDelay == 10

\* Mutation of fetch_graph: the cached payload is ignored and the network is
\* always asked.
fetch_graph_nocache(c, point, dist, remote, setOk) ==
    LET graph == <<"graph", point[1], point[2], dist>>
    IN  IF remote.ok
        THEN [ret |-> IF setOk \in {"ok", "CacheError"} THEN Some(remote.data) ELSE None,
              cache |-> cache_set(c, graph, remote.data, setOk = "ok"),
              requests |-> 1, slept |-> GraphDelay, sets |-> 1, raised |-> None]
        ELSE [ret |-> None, cache |-> c,
              requests |-> 1, slept |-> 0, sets |-> 0, raised |-> None]

\* Mutation of fetch_graph: a failed request stores an empty placeholder
\* graph under the key.
fetch_graph_store_failure(c, point, dist, remote, setOk) ==
    LET graph == <<"graph", point[1], point[2], dist>>
        cached == cache_get(c, graph)
    IN  IF cached # None
        THEN [ret |-> cached, cache |-> c,
              requests |-> 0, slept |-> 0, sets |-> 0, raised |-> None]
        ELSE IF remote.ok
        THEN [ret |-> IF setOk \in {"ok", "CacheError"} THEN Some(remote.data) ELSE None,
              cache |-> cache_set(c, graph, remote.data, setOk = "ok"),
              requests |-> 1, slept |-> GraphDelay, sets |-> 1, raised |-> None]
        ELSE [ret |-> None, cache |-> cache_set(c, graph, remote.data, TRUE),
              requests |-> 1, slept |-> 0, sets |-> 1, raised |-> None]

fetch_graph(c, point, dist, remote, setOk) ==
    LET graph == <<"graph", point[1], point[2], dist>>
        cached == cache_get(c, graph)
    IN  IF cached # None
        THEN [ret |-> cached, cache |-> c,
              requests |-> 0, slept |-> 0, sets |-> 0, raised |-> None]
        ELSE IF remote.ok
        \* g = ox.graph_from_point(...); time.sleep(0.5); cache_set; return g
        \* (except CacheError: print); another exception of cache_set goes
        \* to "except Exception": return None
        THEN [ret |-> IF setOk \in {"ok", "CacheError"} THEN Some(remote.data) ELSE None,
              cache |-> cache_set(c, graph, remote.data, setOk = "ok"),
              requests |-> 1, slept |-> GraphDelay, sets |-> 1, raised |-> None]
        \* except Exception: return None
        ELSE [ret |-> None, cache |-> c,
              requests |-> 1, slept |-> 0, sets |-> 0, raised |-> None]

fetch_features(c, point, dist, tags, name, remote, setOk) ==
    LET tag_str == normalize_tags(tags)
        features == <<name, point[1], point[2], dist, tag_str>>
        cached == cache_get(c, features)
    IN  IF cached # None
        THEN [ret |-> cached, cache |-> c,
              requests |-> 0, slept |-> 0, sets |-> 0, raised |-> None]
        ELSE IF remote.ok
        \* data = ox.features_from_point(...); time.sleep(0.3); cache_set
        THEN [ret |-> IF setOk \in {"ok", "CacheError"} THEN Some(remote.data) ELSE None,
              cache |-> cache_set(c, features, remote.data, setOk = "ok"),
              requests |-> 1, slept |-> FeaturesDelay, sets |-> 1, raised |-> None]
        ELSE [ret |-> None, cache |-> c,
              requests |-> 1, slept |-> 0, sets |-> 0, raised |-> None]

-----------------------------------------------------------------------------
(* poster_util.get_coordinates                                             *)

\* str.lower() on the place names of the model.
lower(s) ==
    CASE s = "Paris"  -> "paris"
      [] s = "PARIS"  -> "paris"
      [] s = "France" -> "france"
      [] OTHER        -> s

\* coords = f"coords_{city.lower()}_{country.lower()}": the key string, held
\* in a tuple as the other keys of the cache are.
coords_key(city, country) == <<"coords_" \o lower(city) \o "_" \o lower(country)>>

\* bool(payload) of a cached payload: an empty tuple is false.
truthy(payload) == payload # <<>>

\* geo.kind is what geolocator.geocode did: "raise" (it raised), "none"
\* (no match), "found"; "coro_found" / "coro_none" (it returned a coroutine
\* that asyncio.run resolves), "coro_loop" (a coroutine while an event loop
\* is already running), "coro_raise" (a coroutine that raises the exception
\* of class geo.exc when it is awaited).  geo.data is the location
\* <<latitude, longitude>>.
get_coordinates(c, city, country, geo, setOk) ==
    LET cached == cache_get(c, coords_key(city, country))
        failed(class, message) ==
            [ret |-> None, cache |-> c, requests |-> 1, slept |-> GeocodeDelay,
             sets |-> 0, raised |-> Some(<<class, message>>)]
    IN  \* if cached: return cached
        IF cached # None /\ truthy(cached[1])
        THEN [ret |-> cached, cache |-> c,
              requests |-> 0, slept |-> 0, sets |-> 0, raised |-> None]
        \* except Exception as e: raise ValueError(...) from e
        ELSE IF geo.kind = "raise"
        THEN failed("ValueError", "Geocoding failed")
        \* asyncio.run refuses to start under a running loop (RuntimeError);
        \* loop.is_running() is true
        ELSE IF geo.kind = "coro_loop"
        THEN failed("RuntimeError", "event loop is already running")
        \* "except RuntimeError" catches a RuntimeError of the coroutine;
        \* asyncio.run has left the thread without a current event loop, so
        \* asyncio.get_event_loop() raises RuntimeError in the handler
        ELSE IF geo.kind = "coro_raise" /\ geo.exc = "RuntimeError"
        THEN failed("RuntimeError", "There is no current event loop")
        \* any other exception of the coroutine leaves asyncio.run and
        \* get_coordinates as it is
        ELSE IF geo.kind = "coro_raise"
        THEN failed(geo.exc, "unreachable")
        \* cache_set is guarded by "except CacheError" alone: another
        \* exception of cache_set leaves get_coordinates
        ELSE IF geo.kind \in {"found", "coro_found"} /\ setOk \notin {"ok", "CacheError"}
        THEN [ret |-> None, cache |-> c, requests |-> 1, slept |-> GeocodeDelay,
              sets |-> 1, raised |-> Some(<<setOk, "cache_set">>)]
        ELSE IF geo.kind \in {"found", "coro_found"}
        THEN [ret |-> Some(geo.data),
              cache |-> cache_set(c, coords_key(city, country), geo.data, setOk = "ok"),
              requests |-> 1, slept |-> GeocodeDelay, sets |-> 1, raised |-> None]
        ELSE failed("ValueError", "Could not find coordinates")

-----------------------------------------------------------------------------
(* Values the functions are called with.                                   *)

MaxRadiusK == 3
MaxDimK == 4
MaxEdges == 2

Points == {<<48, 2>>, <<-33, 151>>}
CropRadii == {R(2500 * k) : k \in (-1)..MaxRadiusK}
CropDims == {R(4 * k) : k \in 1..MaxDimK}

RailwayValues == {"rail", "subway", "light_rail", "tram", "narrow_gauge",
                  "funicular", "monorail", "service", "yard", "siding",
                  "abandoned"}
HighwayValues == {"motorway", "motorway_link", "trunk", "trunk_link",
                  "primary", "primary_link", "secondary", "secondary_link",
                  "tertiary", "tertiary_link", "residential", "living_street",
                  "unclassified", "footway"}

\* absent, empty list, scalar, one- and two-element lists
TagValues(vals, seconds) ==
    {Absent, List(<<>>)}
        \cup {Scalar(v) : v \in vals}
        \cup {List(<<v>>) : v \in vals}
        \cup {List(<<v, w>>) : v \in vals, w \in seconds}

TagBags ==
    [railway : TagValues(RailwayValues, {"service", "rail"}),
     highway : TagValues(HighwayValues, {"motorway", "footway"})]

SmallBags ==
    {[railway |-> Absent, highway |-> Scalar("primary")],
     [railway |-> List(<<"subway", "service">>), highway |-> Absent],
     [railway |-> Scalar("tram"), highway |-> Scalar("motorway")],
     [railway |-> List(<<>>), highway |-> List(<<"footway", "motorway">>)],
     [railway |-> Absent, highway |-> Absent]}

RECURSIVE SeqsUpTo(_, _)
SeqsUpTo(S, n) ==
    IF n = 0 THEN {<<>>}
    ELSE LET shorter == SeqsUpTo(S, n - 1)
         IN  shorter \cup {Append(q, e) : q \in shorter, e \in S}

SampleEdgeLists == {<<b>> : b \in TagBags} \cup SeqsUpTo(SmallBags, MaxEdges)

Graph(edges) == [crs |-> "epsg:4326", edges |-> edges]

\* ox.project_graph(g): the same edges in a projected (UTM) CRS.
project_graph(g) == [g EXCEPT !.crs = "utm"]

NoCall ==
    [op |-> "none", args |-> <<>>, ret |-> <<>>, requests |-> 0,
     slept |-> 0, sets |-> 0, raised |-> <<>>, remote_failed |-> FALSE,
     set_failed |-> FALSE, fetched |-> <<>>]

NoInput == [city |-> "", country |-> "", latlon |-> <<>>, distance |-> 0,
            width |-> 0, height |-> 0, themes |-> 0, text_options |-> "",
            display_city |-> <<>>, display_country |-> <<>>,
            country_label |-> <<>>, fonts |-> <<>>, FONTS |-> <<>>]

NoData == [graph |-> [crs |-> "epsg:4326", edges |-> <<>>], water |-> <<>>,
           parks |-> <<>>, railways |-> <<>>]

NoLocals == [width |-> <<>>, compensated_dist |-> <<>>, g |-> <<>>, water |-> <<>>,
             parks |-> <<>>, railways |-> <<>>, crop |-> <<>>,
             xlim |-> <<>>, ylim |-> <<>>]

\* The pipeline variables when no poster run is in progress.
PipelineIdle ==
    /\ inp = NoInput
    /\ coords = None
    /\ themesLeft = 0
    /\ now = 0
    /\ reqLog = <<>>
    /\ osm = NoData
    /\ disk = "ok"
    /\ loc = NoLocals
    /\ draws = <<>>
    /\ saved = 0
    /\ err = ""

pipelineVars == <<inp, coords, themesLeft, now, reqLog, osm, disk, loc, draws, saved, err>>

-----------------------------------------------------------------------------
(* SpecUtil: one call of a pure function of poster_util.  The initial      *)
(* state holds the arguments (pc = "call"); the action applies the         *)
(* function and records what it returned (pc = "returned").                *)

PureCall(op, args) == [NoCall EXCEPT !.op = op, !.args = args]

InitUtil ==
    /\ cache = <<>>
    /\ stored = <<>>
    /\ pc = "call"
    /\ lastCall \in
          {PureCall("get_crop_limits", <<point, <<w, h>>, dist>>) :
               point \in Points, w \in CropDims, h \in CropDims, dist \in CropRadii}
          \cup {PureCall("get_edge_colors_by_type", edges) : edges \in SampleEdgeLists}
          \cup {PureCall("get_edge_widths_by_type", edges) : edges \in SampleEdgeLists}
    /\ PipelineIdle

CallGetCropLimits ==
    /\ pc = "call"
    /\ lastCall.op = "get_crop_limits"
    /\ lastCall' = [lastCall EXCEPT !.ret =
            get_crop_limits(project_graph(Graph(<<>>)), lastCall.args[1],
                            lastCall.args[2], lastCall.args[3])]
    /\ pc' = "returned"
    /\ UNCHANGED <<cache, stored, pipelineVars>>

CallGetEdgeColors ==
    /\ pc = "call"
    /\ lastCall.op = "get_edge_colors_by_type"
    /\ lastCall' = [lastCall EXCEPT !.ret = get_edge_colors_by_type(Graph(lastCall.args))]
    /\ pc' = "returned"
    /\ UNCHANGED <<cache, stored, pipelineVars>>

CallGetEdgeWidths ==
    /\ pc = "call"
    /\ lastCall.op = "get_edge_widths_by_type"
    /\ lastCall' = [lastCall EXCEPT !.ret = get_edge_widths_by_type(Graph(lastCall.args))]
    /\ pc' = "returned"
    /\ UNCHANGED <<cache, stored, pipelineVars>>

NextUtil == CallGetCropLimits \/ CallGetEdgeColors \/ CallGetEdgeWidths

SpecUtil == InitUtil /\ [][NextUtil]_vars

Returned(op) == pc = "returned" /\ lastCall.op = op

-----------------------------------------------------------------------------
(* SpecFetch: direct calls of fetch_graph, fetch_features and              *)
(* get_coordinates, in any order and any number of times, on one cache.    *)

FetchPoints == {<<48, 2>>}
FetchDists == {R(2500), R(10000)}

PrimaryEdge == [railway |-> Absent, highway |-> Scalar("primary")]
SubwayEdge == [railway |-> List(<<"subway", "service">>), highway |-> Absent]
ResidentialEdge == [railway |-> Absent, highway |-> List(<<"residential", "footway">>)]

GraphPayloads == {Graph(<<PrimaryEdge, SubwayEdge>>), Graph(<<ResidentialEdge>>)}

\* A feature of a GeoDataFrame: geometry type and railway tag ("" if none).
Feature(geom, railway) == [geom |-> geom, railway |-> railway]

FeaturePayloads == {<<Feature("Polygon", "")>>,
                    <<Feature("LineString", ""), Feature("MultiPolygon", "")>>}

\* Outcomes of ox.graph_from_point / ox.features_from_point: an exception
\* (ok = FALSE) or the data.
RemoteGraphs ==
    {[ok |-> FALSE, data |-> Graph(<<>>)]} \cup {[ok |-> TRUE, data |-> g] : g \in GraphPayloads}
RemoteFeatures(payloads) ==
    {[ok |-> FALSE, data |-> <<>>]} \cup {[ok |-> TRUE, data |-> d] : d \in payloads}

\* The tag filters create_poster passes to fetch_features.
WaterTags == <<<<"natural", List(<<"water", "bay", "strait">>)>>,
               <<"waterway", Scalar("riverbank")>>>>
ParksTags == <<<<"leisure", Scalar("park")>>, <<"landuse", Scalar("grass")>>>>
RailTags == <<<<"railway", List(<<"rail", "subway", "tram", "light_rail",
                                  "narrow_gauge", "monorail", "service",
                                  "yard", "siding">>)>>>>

FeatureRequests == {<<WaterTags, "water">>, <<ParksTags, "parks">>}

\* <<city, country>> arguments: two spellings of one place
Cities == {<<"Paris", "France">>, <<"PARIS", "France">>}

\* The exceptions a geocode coroutine raises when it is awaited.
CoroutineErrors == {"ConnectionError", "RuntimeError"}

GeoOutcomes ==
    {[kind |-> k, data |-> <<48, 2>>, exc |-> ""] :
        k \in {"raise", "none", "found", "coro_found", "coro_none", "coro_loop"}}
    \cup {[kind |-> "coro_raise", data |-> <<48, 2>>, exc |-> e] : e \in CoroutineErrors}

\* What a call did, for lastCall: r is the result record of the function,
\* remoteOk / setOk the outcomes of the remote request and of cache_set.
CallRecord(op, args, r, remoteOk, data, setOk) ==
    [op |-> op, args |-> args, ret |-> r.ret, requests |-> r.requests,
     slept |-> r.slept, sets |-> r.sets, raised |-> r.raised,
     remote_failed |-> (r.requests = 1 /\ ~remoteOk),
     set_failed |-> (r.sets = 1 /\ setOk # "ok"),
     fetched |-> IF r.requests = 1 /\ remoteOk THEN Some(data) ELSE None]

\* The history of payloads fetched and stored, after a call with args.
Remember(args, r, remoteOk, data, setOk) ==
    IF r.requests = 1 /\ remoteOk /\ r.sets = 1 /\ setOk = "ok"
    THEN (args :> data) @@ stored
    ELSE stored

CallFetchGraph ==
    \E point \in FetchPoints, dist \in FetchDists, remote \in RemoteGraphs,
       setOk \in SetOutcomes :
        LET r == fetch_graph(cache, point, dist, remote, setOk)
            args == <<"fetch_graph", point, dist>>
        IN  /\ pc = "idle"
            /\ cache' = r.cache
            /\ lastCall' = CallRecord("fetch_graph", args, r, remote.ok, remote.data, setOk)
            /\ stored' = Remember(args, r, remote.ok, remote.data, setOk)
            /\ UNCHANGED <<pc, pipelineVars>>

CallFetchFeatures ==
    \E point \in FetchPoints, dist \in FetchDists, req \in FeatureRequests,
       remote \in RemoteFeatures(FeaturePayloads), setOk \in SetOutcomes :
        LET r == fetch_features(cache, point, dist, req[1], req[2], remote, setOk)
            args == <<"fetch_features", point, dist, req[1], req[2]>>
        IN  /\ pc = "idle"
            /\ cache' = r.cache
            /\ lastCall' = CallRecord("fetch_features", args, r, remote.ok, remote.data, setOk)
            /\ stored' = Remember(args, r, remote.ok, remote.data, setOk)
            /\ UNCHANGED <<pc, pipelineVars>>

CallGetCoordinates ==
    \E place \in Cities, geo \in GeoOutcomes, setOk \in SetOutcomes :
        LET r == get_coordinates(cache, place[1], place[2], geo, setOk)
            found == geo.kind \in {"found", "coro_found"}
        IN  /\ pc = "idle"
            /\ cache' = r.cache
            /\ lastCall' = CallRecord("get_coordinates", place, r,
                                      found, geo.data, setOk)
            /\ UNCHANGED <<stored, pc, pipelineVars>>

InitFetch ==
    /\ cache = <<>>
    /\ stored = <<>>
    /\ lastCall = NoCall
    /\ pc = "idle"
    /\ PipelineIdle

NextFetch == CallFetchGraph \/ CallFetchFeatures \/ CallGetCoordinates

SpecFetch == InitFetch /\ [][NextFetch]_vars

IsFetch(call) == call.op \in {"fetch_graph", "fetch_features"}

-----------------------------------------------------------------------------
(* Spec: one run of the program, the __main__ driver of                    *)
(* map_to_poster_main.py calling get_coordinates and, for every theme,     *)
(* create_poster.  create_poster is followed statement group by statement  *)
(* group; pc is the next group to run.  The place's data (osm) and the     *)
(* state of the cache directory (disk: every cache_set of the run ends the *)
(* same way, one of SetOutcomes) are fixed for the run; each remote        *)
(* request succeeds or fails on its own.                                   *)

MaxThemes == 2

Distances == {-4000, 0, 10000}
FigSizes == {<<12, 16>>, <<16, 12>>, <<12, 12>>, <<0, 16>>, <<6, 8>>}

\* The values of the railway column, in the order pandas groupby yields them.
SortedRailway == <<"abandoned", "funicular", "light_rail", "monorail",
                   "narrow_gauge", "rail", "service", "siding", "subway",
                   "tram", "yard">>

\* Places: the graph and the water, parks and railway features the remote
\* services return for them when a request succeeds.
Places ==
    {[graph |-> Graph(<<PrimaryEdge, SubwayEdge>>),
      water |-> <<Feature("Polygon", ""), Feature("MultiPolygon", "")>>,
      parks |-> <<Feature("Polygon", "")>>,
      railways |-> [i \in 1..Len(SortedRailway) |->
                       Feature("LineString", SortedRailway[i])]],
     [graph |-> Graph(<<ResidentialEdge>>),
      water |-> <<Feature("LineString", "")>>,
      parks |-> <<>>,
      railways |-> <<Feature("Polygon", "rail")>>],
     [graph |-> Graph(<<PrimaryEdge, SubwayEdge>>),
      water |-> <<>>,
      parks |-> <<Feature("Point", "")>>,
      railways |-> <<Feature("LineString", "tram"), Feature("MultiLineString", "rail"),
                     Feature("LineString", "tram"), Feature("Point", "subway")>>]}

\* --text-options of the runs explored
RunTextOptions == {"keep_all", "no_coords", "no_country", "no_city_country",
                   "clear_all"}

\* <<fonts, FONTS>>: the fonts loaded for --font-family (None when the
\* option is not given or loading failed) and the default fonts loaded at
\* import (None when the font files are missing).
FontConfigs == {<<<<>>, <<"Roboto">>>>, <<<<"Noto Sans JP">>, <<"Roboto">>>>,
                <<<<>>, <<>>>>, <<<<"Noto Sans JP">>, <<>>>>}

\* --display-city values: not given, a non-Latin name, a long Latin name
DisplayCities == {<<>>, <<"Tokyo">>, <<"San Francisco">>}

\* A command line with the default names and fonts.
DefaultRun(ll, d, f, n, t) ==
    [city |-> "Paris", country |-> "France", latlon |-> ll,
     distance |-> d, width |-> f[1], height |-> f[2], themes |-> n,
     text_options |-> t, display_city |-> <<>>,
     display_country |-> <<>>, country_label |-> <<>>,
     fonts |-> <<>>, FONTS |-> <<"Roboto">>]

\* The command lines of the runs explored: every combination of
\* coordinates, distance, figure size, number of themes and text option
\* (runs of several themes with the default text option only) with the
\* default names and fonts, and one-theme runs at two figure sizes with
\* every font configuration and display name.
Runs ==
    {DefaultRun(ll, d, f, 1, t) :
         ll \in {<<>>, <<<<48, 2>>>>}, d \in Distances, f \in FigSizes,
         t \in RunTextOptions}
    \cup
    {DefaultRun(ll, d, f, n, "keep_all") :
         ll \in {<<>>, <<<<48, 2>>>>}, d \in Distances, f \in FigSizes,
         n \in 1..MaxThemes}
    \cup
    {[city |-> "Paris", country |-> "France", latlon |-> <<<<48, 2>>>>,
      distance |-> 10000, width |-> f[1], height |-> f[2], themes |-> 1,
      text_options |-> t, display_city |-> dc,
      display_country |-> IF dc = <<"Tokyo">> THEN <<"Japan">> ELSE <<>>,
      country_label |-> <<>>,
      fonts |-> fc[1], FONTS |-> fc[2]] :
         f \in {<<12, 16>>, <<6, 8>>}, t \in RunTextOptions,
         dc \in DisplayCities, fc \in FontConfigs}

Min(a, b) == IF a < b THEN a ELSE b
Max(a, b) == IF a < b THEN b ELSE a

Request(kind, t, ok) == [kind |-> kind, t |-> t, ok |-> ok]

Init ==
    /\ stored = <<>>
    /\ lastCall = NoCall
    /\ pc = "main"
    /\ osm \in Places
    /\ disk \in SetOutcomes
    /\ inp \in Runs
    \* the cache directory of earlier runs: empty, or holding the coordinates
    /\ cache \in IF inp.latlon = None
                THEN {<<>>, (coords_key("Paris", "France") :> <<48, 2>>)}
                ELSE {<<>>}
    /\ coords = None
    /\ themesLeft = inp.themes
    /\ now = 0
    /\ reqLog = <<>>
    /\ loc = NoLocals
    /\ draws = <<>>
    /\ saved = 0
    /\ err = ""

\* __main__: coords = [parse(args.latitude), parse(args.longitude)]
MainExplicitCoords ==
    /\ pc = "main"
    /\ inp.latlon # None
    /\ coords' = inp.latlon
    /\ pc' = "loop"
    /\ UNCHANGED <<cache, lastCall, stored, inp, themesLeft, now, reqLog, osm, disk, loc,
                   draws, saved, err>>

\* __main__: coords = get_coordinates(args.city, args.country); an exception
\* is printed and the program exits with status 1.
MainGetCoordinates ==
    /\ pc = "main"
    /\ inp.latlon = None
    /\ \E geo \in GeoOutcomes :
          LET r == get_coordinates(cache, inp.city, inp.country, geo, disk)
          IN  /\ cache' = r.cache
              /\ now' = now + r.slept
              /\ reqLog' = IF r.requests = 1
                           THEN Append(reqLog, Request("geocode", now + r.slept,
                                                       geo.kind \notin {"raise", "coro_loop", "coro_raise"}))
                           ELSE reqLog
              /\ IF r.raised # None
                 THEN /\ err' = r.raised[1][1]
                      /\ pc' = "exit1"
                      /\ coords' = coords
                 ELSE /\ err' = err
                      /\ pc' = "loop"
                      /\ coords' = r.ret
    /\ UNCHANGED <<lastCall, stored, inp, themesLeft, osm, disk, loc, draws, saved>>

\* __main__: for theme_name in themes_to_generate: ... create_poster(...,
\* width=args.width, ...); loc.width is create_poster's variable width.
MainNextTheme ==
    /\ pc = "loop"
    /\ themesLeft > 0
    /\ themesLeft' = themesLeft - 1
    /\ loc' = [NoLocals EXCEPT !.width = Some(R(inp.width))]
    /\ draws' = <<>>
    /\ pc' = "cp_streets"
    /\ UNCHANGED <<cache, lastCall, stored, inp, coords, now, reqLog, osm, disk, saved, err>>

\* __main__: the loop is over, "Poster generation complete!"
MainComplete ==
    /\ pc = "loop"
    /\ themesLeft = 0
    /\ pc' = "complete"
    /\ UNCHANGED <<cache, lastCall, stored, inp, coords, themesLeft, now, reqLog,
                   osm, disk, loc, draws, saved, err>>

\* compensated_dist = dist * (max(height, width) / min(height, width)) / 4
compensated_dist(dist, width, height) ==
    RDiv(RMul(R(dist), RDiv(R(Max(height, width)), R(Min(height, width)))), R(4))

\* create_poster: min(height, width) = 0 makes the division raise
\* ZeroDivisionError before anything is fetched.
CP_ZeroDivision ==
    /\ pc = "cp_streets"
    /\ Min(inp.height, inp.width) = 0
    /\ err' = "ZeroDivisionError"
    /\ pc' = "exit1"
    /\ UNCHANGED <<cache, lastCall, stored, inp, coords, themesLeft, now, reqLog,
                   osm, disk, loc, draws, saved>>

\* A create_poster without the "if g is None: raise RuntimeError" statement.
CP_FetchStreets_no_raise ==
    /\ pc = "cp_streets"
    /\ Min(inp.height, inp.width) # 0
    /\ \E remote \in {r \in RemoteGraphs : r.ok => r.data = osm.graph} :
          LET cd == compensated_dist(inp.distance, inp.width, inp.height)
              r == fetch_graph(cache, coords[1], cd, remote, disk)
          IN  /\ cache' = r.cache
              /\ reqLog' = IF r.requests = 1
                           THEN Append(reqLog, Request("graph", now, remote.ok))
                           ELSE reqLog
              /\ now' = now + r.slept
              /\ loc' = [loc EXCEPT !.compensated_dist = Some(cd), !.g = r.ret]
              /\ err' = err
              /\ pc' = "cp_water"
    /\ UNCHANGED <<lastCall, stored, inp, coords, themesLeft, osm, disk, draws, saved>>

\* create_poster: g = fetch_graph(point, compensated_dist); None raises
\* RuntimeError("Failed to retrieve street network data.")
CP_FetchStreets ==
    /\ pc = "cp_streets"
    /\ Min(inp.height, inp.width) # 0
    /\ \E remote \in {r \in RemoteGraphs : r.ok => r.data = osm.graph} :
          LET cd == compensated_dist(inp.distance, inp.width, inp.height)
              r == fetch_graph(cache, coords[1], cd, remote, disk)
          IN  /\ cache' = r.cache
              /\ reqLog' = IF r.requests = 1
                           THEN Append(reqLog, Request("graph", now, remote.ok))
                           ELSE reqLog
              /\ now' = now + r.slept
              /\ loc' = [loc EXCEPT !.compensated_dist = Some(cd), !.g = r.ret]
              /\ IF r.ret = None
                 THEN err' = "RuntimeError" /\ pc' = "exit1"
                 ELSE err' = err /\ pc' = "cp_water"
    /\ UNCHANGED <<lastCall, stored, inp, coords, themesLeft, osm, disk, draws, saved>>

\* One fetch_features call of create_poster and its effect on the cache,
\* the clock and the request log; data is what the service holds, res the
\* returned None / Some(data).
FetchLayer(tags, name, data, res) ==
    \E remote \in RemoteFeatures({data}) :
        LET r == fetch_features(cache, coords[1], loc.compensated_dist[1], tags, name,
                                remote, disk)
        IN  /\ cache' = r.cache
            /\ reqLog' = IF r.requests = 1
                         THEN Append(reqLog, Request("features", now, remote.ok))
                         ELSE reqLog
            /\ now' = now + r.slept
            /\ res = r.ret

CP_FetchWater ==
    /\ pc = "cp_water"
    /\ \E res \in {None, Some(osm.water)} :
          /\ FetchLayer(WaterTags, "water", osm.water, res)
          /\ loc' = [loc EXCEPT !.water = res]
    /\ pc' = "cp_parks"
    /\ UNCHANGED <<lastCall, stored, inp, coords, themesLeft, osm, disk, draws, saved, err>>

CP_FetchParks ==
    /\ pc = "cp_parks"
    /\ \E res \in {None, Some(osm.parks)} :
          /\ FetchLayer(ParksTags, "parks", osm.parks, res)
          /\ loc' = [loc EXCEPT !.parks = res]
    /\ pc' = "cp_railways"
    /\ UNCHANGED <<lastCall, stored, inp, coords, themesLeft, osm, disk, draws, saved, err>>

CP_FetchRailways ==
    /\ pc = "cp_railways"
    /\ \E res \in {None, Some(osm.railways)} :
          /\ FetchLayer(RailTags, "railways", osm.railways, res)
          /\ loc' = [loc EXCEPT !.railways = res]
    /\ pc' = "cp_figure"
    /\ UNCHANGED <<lastCall, stored, inp, coords, themesLeft, osm, disk, draws, saved, err>>

\* create_poster: fig, ax = plt.subplots(figsize=(width, height),
\* facecolor=THEME["bg"]); g_proj = ox.project_graph(g);
\* crop_xlim, crop_ylim = get_crop_limits(g_proj, point, fig, compensated_dist)
CP_Figure ==
    /\ pc = "cp_figure"
    /\ draws' = Append(draws, [cmd |-> "background", color |-> THEME["bg"], zorder |-> 0])
    /\ loc' = [loc EXCEPT !.crop =
                  Some(get_crop_limits(project_graph(loc.g[1]), coords[1],
                                       <<R(inp.width), R(inp.height)>>,
                                       loc.compensated_dist[1]))]
    /\ pc' = "cp_plot_water"
    /\ UNCHANGED <<cache, lastCall, stored, inp, coords, themesLeft, now, reqLog,
                   osm, disk, saved, err>>

\* gdf[gdf.geometry.type.isin(types)]
of_type(gdf, types) == SelectSeq(gdf, LAMBDA f : f.geom \in types)

\* A polygon layer that plots whatever it is given, absent or not.
polygon_layer_unguarded(gdf, cmd, color, zorder) ==
    <<[cmd |-> cmd, color |-> color, zorder |-> zorder]>>

\* The polygon layers: drawn when the collection is not None, not empty and
\* has polygons.  zorder is in tenths.
polygon_layer(gdf, cmd, color, zorder) ==
    IF gdf # None /\ gdf[1] # <<>>
          /\ of_type(gdf[1], {"Polygon", "MultiPolygon"}) # <<>>
    THEN <<[cmd |-> cmd, color |-> color, zorder |-> zorder]>>
    ELSE <<>>

CP_PlotWater ==
    /\ pc = "cp_plot_water"
    /\ draws' = draws \o polygon_layer(loc.water, "water", THEME["water"], 5)
    /\ pc' = "cp_plot_parks"
    /\ UNCHANGED <<cache, lastCall, stored, inp, coords, themesLeft, now, reqLog,
                   osm, disk, loc, saved, err>>

CP_PlotParks ==
    /\ pc = "cp_plot_parks"
    /\ draws' = draws \o polygon_layer(loc.parks, "parks", THEME["parks"], 8)
    /\ pc' = "cp_plot_edges"
    /\ UNCHANGED <<cache, lastCall, stored, inp, coords, themesLeft, now, reqLog,
                   osm, disk, loc, saved, err>>

\* edge_colors / edge_widths of the projected graph, drawn by ox.plot_graph
CP_PlotEdges ==
    /\ pc = "cp_plot_edges"
    /\ draws' = Append(draws,
          [cmd |-> "edges",
           edge_color |-> get_edge_colors_by_type(project_graph(loc.g[1])),
           edge_linewidth |-> get_edge_widths_by_type(project_graph(loc.g[1])),
           zorder |-> 10])
    /\ pc' = "cp_plot_rail"
    /\ UNCHANGED <<cache, lastCall, stored, inp, coords, themesLeft, now, reqLog,
                   osm, disk, loc, saved, err>>

\* The if / elif chain on railway_type in create_poster: the locals color
\* and width (tenths) of one group.
rail_group_style(railway_type) ==
    IF railway_type \in {"rail", "subway"}
    THEN [color |-> THEME["rail_heavy"], width |-> 10]
    ELSE IF railway_type \in {"light_rail", "tram"}
    THEN [color |-> THEME["rail_light"], width |-> 7]
    ELSE IF railway_type \in {"narrow_gauge", "funicular", "monorail"}
    THEN [color |-> THEME["rail_special"], width |-> 6]
    ELSE IF railway_type \in {"service", "yard", "siding"}
    THEN [color |-> THEME["rail_service"], width |-> 4]
    ELSE [color |-> THEME["rail_default"], width |-> 5]

\* A rail layer plotted above everything else (zorder 12).
rail_layer_on_top(railways) ==
    IF railways # None /\ railways[1] # <<>>
    THEN LET rail_lines == of_type(railways[1], {"LineString", "MultiLineString"})
             keys == SelectSeq(SortedRailway,
                               LAMBDA k : \E i \in 1..Len(rail_lines) :
                                              rail_lines[i].railway = k)
         IN  [i \in 1..Len(keys) |->
                 [cmd |-> "rail", railway |-> keys[i],
                  color |-> rail_group_style(keys[i]).color,
                  width |-> rail_group_style(keys[i]).width,
                  linewidth |-> None, zorder |-> 120]]
    ELSE <<>>

\* for railway_type, group in rail_lines.groupby("railway"):
\*     ...; group.plot(ax=ax, color=color, edgecolor="none", zorder=1)
\* No linewidth is passed to plot: linewidth is None in the command; width
\* is the value of the variable width at the time of the call.
rail_layer(railways) ==
    IF railways # None /\ railways[1] # <<>>
    THEN LET rail_lines == of_type(railways[1], {"LineString", "MultiLineString"})
             keys == SelectSeq(SortedRailway,
                               LAMBDA k : \E i \in 1..Len(rail_lines) :
                                              rail_lines[i].railway = k)
         IN  [i \in 1..Len(keys) |->
                 [cmd |-> "rail", railway |-> keys[i],
                  color |-> rail_group_style(keys[i]).color,
                  width |-> rail_group_style(keys[i]).width,
                  linewidth |-> None, zorder |-> 10]]
    ELSE <<>>

\* The value of create_poster's variable width after the rail block: the
\* loop assigns the group's line width to width, which is the parameter
\* holding the figure width, so the last group's value stays in it.
width_after_rail(railways, width) ==
    LET groups == rail_layer(railways)
    IN  IF groups = <<>> THEN width
        ELSE RNorm(groups[Len(groups)].width, 10)

CP_PlotRail ==
    /\ pc = "cp_plot_rail"
    /\ draws' = draws \o rail_layer(loc.railways)
    /\ loc' = [loc EXCEPT !.width = Some(width_after_rail(loc.railways, loc.width[1]))]
    /\ pc' = "cp_limits"
    /\ UNCHANGED <<cache, lastCall, stored, inp, coords, themesLeft, now, reqLog,
                   osm, disk, saved, err>>

\* ax.set_xlim(crop_xlim); ax.set_ylim(crop_ylim); the two gradient fades
CP_LimitsAndGradients ==
    /\ pc = "cp_limits"
    /\ loc' = [loc EXCEPT !.xlim = Some(loc.crop[1][1]), !.ylim = Some(loc.crop[1][2])]
    /\ draws' = draws \o
          <<[cmd |-> "gradient", location |-> "bottom",
             color |-> THEME["gradient_color"], zorder |-> 100],
            [cmd |-> "gradient", location |-> "top",
             color |-> THEME["gradient_color"], zorder |-> 100]>>
    /\ pc' = "cp_typography"
    /\ UNCHANGED <<cache, lastCall, stored, inp, coords, themesLeft, now, reqLog,
                   osm, disk, saved, err>>

\* The characters (code points) of the place names of the model.
chars(name) ==
    CASE name = "Paris"  -> <<80, 97, 114, 105, 115>>
      [] name = "France" -> <<70, 114, 97, 110, 99, 101>>
      [] name = "Tokyo"  -> <<26481, 20140>>
      [] name = "Japan"  -> <<26085, 26412>>
      [] name = "San Francisco" ->
             <<83, 97, 110, 32, 70, 114, 97, 110, 99, 105, 115, 99, 111>>
      [] OTHER -> <<>>

\* The ranges <<first, last>> of the code points c for which chr(c).isalpha()
\* is true (Unicode 14.0.0), in ascending order.
AlphaRanges == <<
    <<65, 90>>, <<97, 122>>, <<170, 170>>, <<181, 181>>, <<186, 186>>, <<192, 214>>,
    <<216, 246>>, <<248, 705>>, <<710, 721>>, <<736, 740>>, <<748, 748>>, <<750, 750>>,
    <<880, 884>>, <<886, 887>>, <<890, 893>>, <<895, 895>>, <<902, 902>>, <<904, 906>>,
    <<908, 908>>, <<910, 929>>, <<931, 1013>>, <<1015, 1153>>, <<1162, 1327>>, <<1329, 1366>>,
    <<1369, 1369>>, <<1376, 1416>>, <<1488, 1514>>, <<1519, 1522>>, <<1568, 1610>>, <<1646, 1647>>,
    <<1649, 1747>>, <<1749, 1749>>, <<1765, 1766>>, <<1774, 1775>>, <<1786, 1788>>, <<1791, 1791>>,
    <<1808, 1808>>, <<1810, 1839>>, <<1869, 1957>>, <<1969, 1969>>, <<1994, 2026>>, <<2036, 2037>>,
    <<2042, 2042>>, <<2048, 2069>>, <<2074, 2074>>, <<2084, 2084>>, <<2088, 2088>>, <<2112, 2136>>,
    <<2144, 2154>>, <<2160, 2183>>, <<2185, 2190>>, <<2208, 2249>>, <<2308, 2361>>, <<2365, 2365>>,
    <<2384, 2384>>, <<2392, 2401>>, <<2417, 2432>>, <<2437, 2444>>, <<2447, 2448>>, <<2451, 2472>>,
    <<2474, 2480>>, <<2482, 2482>>, <<2486, 2489>>, <<2493, 2493>>, <<2510, 2510>>, <<2524, 2525>>,
    <<2527, 2529>>, <<2544, 2545>>, <<2556, 2556>>, <<2565, 2570>>, <<2575, 2576>>, <<2579, 2600>>,
    <<2602, 2608>>, <<2610, 2611>>, <<2613, 2614>>, <<2616, 2617>>, <<2649, 2652>>, <<2654, 2654>>,
    <<2674, 2676>>, <<2693, 2701>>, <<2703, 2705>>, <<2707, 2728>>, <<2730, 2736>>, <<2738, 2739>>,
    <<2741, 2745>>, <<2749, 2749>>, <<2768, 2768>>, <<2784, 2785>>, <<2809, 2809>>, <<2821, 2828>>,
    <<2831, 2832>>, <<2835, 2856>>, <<2858, 2864>>, <<2866, 2867>>, <<2869, 2873>>, <<2877, 2877>>,
    <<2908, 2909>>, <<2911, 2913>>, <<2929, 2929>>, <<2947, 2947>>, <<2949, 2954>>, <<2958, 2960>>,
    <<2962, 2965>>, <<2969, 2970>>, <<2972, 2972>>, <<2974, 2975>>, <<2979, 2980>>, <<2984, 2986>>,
    <<2990, 3001>>, <<3024, 3024>>, <<3077, 3084>>, <<3086, 3088>>, <<3090, 3112>>, <<3114, 3129>>,
    <<3133, 3133>>, <<3160, 3162>>, <<3165, 3165>>, <<3168, 3169>>, <<3200, 3200>>, <<3205, 3212>>,
    <<3214, 3216>>, <<3218, 3240>>, <<3242, 3251>>, <<3253, 3257>>, <<3261, 3261>>, <<3293, 3294>>,
    <<3296, 3297>>, <<3313, 3314>>, <<3332, 3340>>, <<3342, 3344>>, <<3346, 3386>>, <<3389, 3389>>,
    <<3406, 3406>>, <<3412, 3414>>, <<3423, 3425>>, <<3450, 3455>>, <<3461, 3478>>, <<3482, 3505>>,
    <<3507, 3515>>, <<3517, 3517>>, <<3520, 3526>>, <<3585, 3632>>, <<3634, 3635>>, <<3648, 3654>>,
    <<3713, 3714>>, <<3716, 3716>>, <<3718, 3722>>, <<3724, 3747>>, <<3749, 3749>>, <<3751, 3760>>,
    <<3762, 3763>>, <<3773, 3773>>, <<3776, 3780>>, <<3782, 3782>>, <<3804, 3807>>, <<3840, 3840>>,
    <<3904, 3911>>, <<3913, 3948>>, <<3976, 3980>>, <<4096, 4138>>, <<4159, 4159>>, <<4176, 4181>>,
    <<4186, 4189>>, <<4193, 4193>>, <<4197, 4198>>, <<4206, 4208>>, <<4213, 4225>>, <<4238, 4238>>,
    <<4256, 4293>>, <<4295, 4295>>, <<4301, 4301>>, <<4304, 4346>>, <<4348, 4680>>, <<4682, 4685>>,
    <<4688, 4694>>, <<4696, 4696>>, <<4698, 4701>>, <<4704, 4744>>, <<4746, 4749>>, <<4752, 4784>>,
    <<4786, 4789>>, <<4792, 4798>>, <<4800, 4800>>, <<4802, 4805>>, <<4808, 4822>>, <<4824, 4880>>,
    <<4882, 4885>>, <<4888, 4954>>, <<4992, 5007>>, <<5024, 5109>>, <<5112, 5117>>, <<5121, 5740>>,
    <<5743, 5759>>, <<5761, 5786>>, <<5792, 5866>>, <<5873, 5880>>, <<5888, 5905>>, <<5919, 5937>>,
    <<5952, 5969>>, <<5984, 5996>>, <<5998, 6000>>, <<6016, 6067>>, <<6103, 6103>>, <<6108, 6108>>,
    <<6176, 6264>>, <<6272, 6276>>, <<6279, 6312>>, <<6314, 6314>>, <<6320, 6389>>, <<6400, 6430>>,
    <<6480, 6509>>, <<6512, 6516>>, <<6528, 6571>>, <<6576, 6601>>, <<6656, 6678>>, <<6688, 6740>>,
    <<6823, 6823>>, <<6917, 6963>>, <<6981, 6988>>, <<7043, 7072>>, <<7086, 7087>>, <<7098, 7141>>,
    <<7168, 7203>>, <<7245, 7247>>, <<7258, 7293>>, <<7296, 7304>>, <<7312, 7354>>, <<7357, 7359>>,
    <<7401, 7404>>, <<7406, 7411>>, <<7413, 7414>>, <<7418, 7418>>, <<7424, 7615>>, <<7680, 7957>>,
    <<7960, 7965>>, <<7968, 8005>>, <<8008, 8013>>, <<8016, 8023>>, <<8025, 8025>>, <<8027, 8027>>,
    <<8029, 8029>>, <<8031, 8061>>, <<8064, 8116>>, <<8118, 8124>>, <<8126, 8126>>, <<8130, 8132>>,
    <<8134, 8140>>, <<8144, 8147>>, <<8150, 8155>>, <<8160, 8172>>, <<8178, 8180>>, <<8182, 8188>>,
    <<8305, 8305>>, <<8319, 8319>>, <<8336, 8348>>, <<8450, 8450>>, <<8455, 8455>>, <<8458, 8467>>,
    <<8469, 8469>>, <<8473, 8477>>, <<8484, 8484>>, <<8486, 8486>>, <<8488, 8488>>, <<8490, 8493>>,
    <<8495, 8505>>, <<8508, 8511>>, <<8517, 8521>>, <<8526, 8526>>, <<8579, 8580>>, <<11264, 11492>>,
    <<11499, 11502>>, <<11506, 11507>>, <<11520, 11557>>, <<11559, 11559>>, <<11565, 11565>>, <<11568, 11623>>,
    <<11631, 11631>>, <<11648, 11670>>, <<11680, 11686>>, <<11688, 11694>>, <<11696, 11702>>, <<11704, 11710>>,
    <<11712, 11718>>, <<11720, 11726>>, <<11728, 11734>>, <<11736, 11742>>, <<11823, 11823>>, <<12293, 12294>>,
    <<12337, 12341>>, <<12347, 12348>>, <<12353, 12438>>, <<12445, 12447>>, <<12449, 12538>>, <<12540, 12543>>,
    <<12549, 12591>>, <<12593, 12686>>, <<12704, 12735>>, <<12784, 12799>>, <<13312, 19903>>, <<19968, 42124>>,
    <<42192, 42237>>, <<42240, 42508>>, <<42512, 42527>>, <<42538, 42539>>, <<42560, 42606>>, <<42623, 42653>>,
    <<42656, 42725>>, <<42775, 42783>>, <<42786, 42888>>, <<42891, 42954>>, <<42960, 42961>>, <<42963, 42963>>,
    <<42965, 42969>>, <<42994, 43009>>, <<43011, 43013>>, <<43015, 43018>>, <<43020, 43042>>, <<43072, 43123>>,
    <<43138, 43187>>, <<43250, 43255>>, <<43259, 43259>>, <<43261, 43262>>, <<43274, 43301>>, <<43312, 43334>>,
    <<43360, 43388>>, <<43396, 43442>>, <<43471, 43471>>, <<43488, 43492>>, <<43494, 43503>>, <<43514, 43518>>,
    <<43520, 43560>>, <<43584, 43586>>, <<43588, 43595>>, <<43616, 43638>>, <<43642, 43642>>, <<43646, 43695>>,
    <<43697, 43697>>, <<43701, 43702>>, <<43705, 43709>>, <<43712, 43712>>, <<43714, 43714>>, <<43739, 43741>>,
    <<43744, 43754>>, <<43762, 43764>>, <<43777, 43782>>, <<43785, 43790>>, <<43793, 43798>>, <<43808, 43814>>,
    <<43816, 43822>>, <<43824, 43866>>, <<43868, 43881>>, <<43888, 44002>>, <<44032, 55203>>, <<55216, 55238>>,
    <<55243, 55291>>, <<63744, 64109>>, <<64112, 64217>>, <<64256, 64262>>, <<64275, 64279>>, <<64285, 64285>>,
    <<64287, 64296>>, <<64298, 64310>>, <<64312, 64316>>, <<64318, 64318>>, <<64320, 64321>>, <<64323, 64324>>,
    <<64326, 64433>>, <<64467, 64829>>, <<64848, 64911>>, <<64914, 64967>>, <<65008, 65019>>, <<65136, 65140>>,
    <<65142, 65276>>, <<65313, 65338>>, <<65345, 65370>>, <<65382, 65470>>, <<65474, 65479>>, <<65482, 65487>>,
    <<65490, 65495>>, <<65498, 65500>>, <<65536, 65547>>, <<65549, 65574>>, <<65576, 65594>>, <<65596, 65597>>,
    <<65599, 65613>>, <<65616, 65629>>, <<65664, 65786>>, <<66176, 66204>>, <<66208, 66256>>, <<66304, 66335>>,
    <<66349, 66368>>, <<66370, 66377>>, <<66384, 66421>>, <<66432, 66461>>, <<66464, 66499>>, <<66504, 66511>>,
    <<66560, 66717>>, <<66736, 66771>>, <<66776, 66811>>, <<66816, 66855>>, <<66864, 66915>>, <<66928, 66938>>,
    <<66940, 66954>>, <<66956, 66962>>, <<66964, 66965>>, <<66967, 66977>>, <<66979, 66993>>, <<66995, 67001>>,
    <<67003, 67004>>, <<67072, 67382>>, <<67392, 67413>>, <<67424, 67431>>, <<67456, 67461>>, <<67463, 67504>>,
    <<67506, 67514>>, <<67584, 67589>>, <<67592, 67592>>, <<67594, 67637>>, <<67639, 67640>>, <<67644, 67644>>,
    <<67647, 67669>>, <<67680, 67702>>, <<67712, 67742>>, <<67808, 67826>>, <<67828, 67829>>, <<67840, 67861>>,
    <<67872, 67897>>, <<67968, 68023>>, <<68030, 68031>>, <<68096, 68096>>, <<68112, 68115>>, <<68117, 68119>>,
    <<68121, 68149>>, <<68192, 68220>>, <<68224, 68252>>, <<68288, 68295>>, <<68297, 68324>>, <<68352, 68405>>,
    <<68416, 68437>>, <<68448, 68466>>, <<68480, 68497>>, <<68608, 68680>>, <<68736, 68786>>, <<68800, 68850>>,
    <<68864, 68899>>, <<69248, 69289>>, <<69296, 69297>>, <<69376, 69404>>, <<69415, 69415>>, <<69424, 69445>>,
    <<69488, 69505>>, <<69552, 69572>>, <<69600, 69622>>, <<69635, 69687>>, <<69745, 69746>>, <<69749, 69749>>,
    <<69763, 69807>>, <<69840, 69864>>, <<69891, 69926>>, <<69956, 69956>>, <<69959, 69959>>, <<69968, 70002>>,
    <<70006, 70006>>, <<70019, 70066>>, <<70081, 70084>>, <<70106, 70106>>, <<70108, 70108>>, <<70144, 70161>>,
    <<70163, 70187>>, <<70272, 70278>>, <<70280, 70280>>, <<70282, 70285>>, <<70287, 70301>>, <<70303, 70312>>,
    <<70320, 70366>>, <<70405, 70412>>, <<70415, 70416>>, <<70419, 70440>>, <<70442, 70448>>, <<70450, 70451>>,
    <<70453, 70457>>, <<70461, 70461>>, <<70480, 70480>>, <<70493, 70497>>, <<70656, 70708>>, <<70727, 70730>>,
    <<70751, 70753>>, <<70784, 70831>>, <<70852, 70853>>, <<70855, 70855>>, <<71040, 71086>>, <<71128, 71131>>,
    <<71168, 71215>>, <<71236, 71236>>, <<71296, 71338>>, <<71352, 71352>>, <<71424, 71450>>, <<71488, 71494>>,
    <<71680, 71723>>, <<71840, 71903>>, <<71935, 71942>>, <<71945, 71945>>, <<71948, 71955>>, <<71957, 71958>>,
    <<71960, 71983>>, <<71999, 71999>>, <<72001, 72001>>, <<72096, 72103>>, <<72106, 72144>>, <<72161, 72161>>,
    <<72163, 72163>>, <<72192, 72192>>, <<72203, 72242>>, <<72250, 72250>>, <<72272, 72272>>, <<72284, 72329>>,
    <<72349, 72349>>, <<72368, 72440>>, <<72704, 72712>>, <<72714, 72750>>, <<72768, 72768>>, <<72818, 72847>>,
    <<72960, 72966>>, <<72968, 72969>>, <<72971, 73008>>, <<73030, 73030>>, <<73056, 73061>>, <<73063, 73064>>,
    <<73066, 73097>>, <<73112, 73112>>, <<73440, 73458>>, <<73648, 73648>>, <<73728, 74649>>, <<74880, 75075>>,
    <<77712, 77808>>, <<77824, 78894>>, <<82944, 83526>>, <<92160, 92728>>, <<92736, 92766>>, <<92784, 92862>>,
    <<92880, 92909>>, <<92928, 92975>>, <<92992, 92995>>, <<93027, 93047>>, <<93053, 93071>>, <<93760, 93823>>,
    <<93952, 94026>>, <<94032, 94032>>, <<94099, 94111>>, <<94176, 94177>>, <<94179, 94179>>, <<94208, 100343>>,
    <<100352, 101589>>, <<101632, 101640>>, <<110576, 110579>>, <<110581, 110587>>, <<110589, 110590>>, <<110592, 110882>>,
    <<110928, 110930>>, <<110948, 110951>>, <<110960, 111355>>, <<113664, 113770>>, <<113776, 113788>>, <<113792, 113800>>,
    <<113808, 113817>>, <<119808, 119892>>, <<119894, 119964>>, <<119966, 119967>>, <<119970, 119970>>, <<119973, 119974>>,
    <<119977, 119980>>, <<119982, 119993>>, <<119995, 119995>>, <<119997, 120003>>, <<120005, 120069>>, <<120071, 120074>>,
    <<120077, 120084>>, <<120086, 120092>>, <<120094, 120121>>, <<120123, 120126>>, <<120128, 120132>>, <<120134, 120134>>,
    <<120138, 120144>>, <<120146, 120485>>, <<120488, 120512>>, <<120514, 120538>>, <<120540, 120570>>, <<120572, 120596>>,
    <<120598, 120628>>, <<120630, 120654>>, <<120656, 120686>>, <<120688, 120712>>, <<120714, 120744>>, <<120746, 120770>>,
    <<120772, 120779>>, <<122624, 122654>>, <<123136, 123180>>, <<123191, 123197>>, <<123214, 123214>>, <<123536, 123565>>,
    <<123584, 123627>>, <<124896, 124902>>, <<124904, 124907>>, <<124909, 124910>>, <<124912, 124926>>, <<124928, 125124>>,
    <<125184, 125251>>, <<125259, 125259>>, <<126464, 126467>>, <<126469, 126495>>, <<126497, 126498>>, <<126500, 126500>>,
    <<126503, 126503>>, <<126505, 126514>>, <<126516, 126519>>, <<126521, 126521>>, <<126523, 126523>>, <<126530, 126530>>,
    <<126535, 126535>>, <<126537, 126537>>, <<126539, 126539>>, <<126541, 126543>>, <<126545, 126546>>, <<126548, 126548>>,
    <<126551, 126551>>, <<126553, 126553>>, <<126555, 126555>>, <<126557, 126557>>, <<126559, 126559>>, <<126561, 126562>>,
    <<126564, 126564>>, <<126567, 126570>>, <<126572, 126578>>, <<126580, 126583>>, <<126585, 126588>>, <<126590, 126590>>,
    <<126592, 126601>>, <<126603, 126619>>, <<126625, 126627>>, <<126629, 126633>>, <<126635, 126651>>, <<131072, 173791>>,
    <<173824, 177976>>, <<177984, 178205>>, <<178208, 183969>>, <<183984, 191456>>, <<194560, 195101>>, <<196608, 201546>>>>


\* The row of a table of ascending <<first, last, ...>> rows, among the rows
\* lo..hi, whose range holds cp; 0 if there is none.
RECURSIVE find_range(_, _, _, _)
find_range(table, cp, lo, hi) ==
    IF lo > hi THEN 0
    ELSE LET mid == (lo + hi) \div 2
         IN  IF cp < table[mid][1] THEN find_range(table, cp, lo, mid - 1)
             ELSE IF cp > table[mid][2] THEN find_range(table, cp, mid + 1, hi)
             ELSE mid

\* char.isalpha() of the character with code point cp
isalpha(cp) == find_range(AlphaRanges, cp, 1, Len(AlphaRanges)) # 0

\* An is_latin_script that accepts a share of exactly 80%.
is_latin_script_at_least(text) ==
    LET alpha == SelectSeq(text, isalpha)
        latin == SelectSeq(alpha, LAMBDA cp : cp < 592)
    IN  IF text = <<>> THEN TRUE
        ELSE IF Len(alpha) = 0 THEN TRUE
        ELSE 10 * Len(latin) >= 8 * Len(alpha)

\* poster_text.is_latin_script on a sequence of code points
is_latin_script(text) ==
    LET alpha == SelectSeq(text, isalpha)
        latin == SelectSeq(alpha, LAMBDA cp : cp < 592)
    IN  IF text = <<>> THEN TRUE
        ELSE IF Len(alpha) = 0 THEN TRUE
        \* (latin_count / total_alpha) > 0.8
        ELSE 10 * Len(latin) > 8 * Len(alpha)

\* str.upper() of the characters that have one capital: <<first, last, step,
\* delta>> says that the code points first, first + step, ... up to last
\* have the capital c + delta.  In ascending order, no two rows overlap.
UpperRanges == <<
    <<97, 122, 1, -32>>, <<181, 181, 1, 743>>, <<224, 246, 1, -32>>, <<248, 254, 1, -32>>,
    <<255, 255, 1, 121>>, <<257, 303, 2, -1>>, <<305, 305, 1, -232>>, <<307, 311, 2, -1>>,
    <<314, 328, 2, -1>>, <<331, 375, 2, -1>>, <<378, 382, 2, -1>>, <<383, 383, 1, -300>>,
    <<384, 384, 1, 195>>, <<387, 389, 2, -1>>, <<392, 392, 1, -1>>, <<396, 396, 1, -1>>,
    <<402, 402, 1, -1>>, <<405, 405, 1, 97>>, <<409, 409, 1, -1>>, <<410, 410, 1, 163>>,
    <<414, 414, 1, 130>>, <<417, 421, 2, -1>>, <<424, 424, 1, -1>>, <<429, 429, 1, -1>>,
    <<432, 432, 1, -1>>, <<436, 438, 2, -1>>, <<441, 441, 1, -1>>, <<445, 445, 1, -1>>,
    <<447, 447, 1, 56>>, <<453, 453, 1, -1>>, <<454, 454, 1, -2>>, <<456, 456, 1, -1>>,
    <<457, 457, 1, -2>>, <<459, 459, 1, -1>>, <<460, 460, 1, -2>>, <<462, 476, 2, -1>>,
    <<477, 477, 1, -79>>, <<479, 495, 2, -1>>, <<498, 498, 1, -1>>, <<499, 499, 1, -2>>,
    <<501, 501, 1, -1>>, <<505, 543, 2, -1>>, <<547, 563, 2, -1>>, <<572, 572, 1, -1>>,
    <<575, 576, 1, 10815>>, <<578, 578, 1, -1>>, <<583, 591, 2, -1>>, <<592, 592, 1, 10783>>,
    <<593, 593, 1, 10780>>, <<594, 594, 1, 10782>>, <<595, 595, 1, -210>>, <<596, 596, 1, -206>>,
    <<598, 599, 1, -205>>, <<601, 601, 1, -202>>, <<603, 603, 1, -203>>, <<604, 604, 1, 42319>>,
    <<608, 608, 1, -205>>, <<609, 609, 1, 42315>>, <<611, 611, 1, -207>>, <<613, 613, 1, 42280>>,
    <<614, 614, 1, 42308>>, <<616, 616, 1, -209>>, <<617, 617, 1, -211>>, <<618, 618, 1, 42308>>,
    <<619, 619, 1, 10743>>, <<620, 620, 1, 42305>>, <<623, 623, 1, -211>>, <<625, 625, 1, 10749>>,
    <<626, 626, 1, -213>>, <<629, 629, 1, -214>>, <<637, 637, 1, 10727>>, <<640, 640, 1, -218>>,
    <<642, 642, 1, 42307>>, <<643, 643, 1, -218>>, <<647, 647, 1, 42282>>, <<648, 648, 1, -218>>,
    <<649, 649, 1, -69>>, <<650, 651, 1, -217>>, <<652, 652, 1, -71>>, <<658, 658, 1, -219>>,
    <<669, 669, 1, 42261>>, <<670, 670, 1, 42258>>, <<837, 837, 1, 84>>, <<881, 883, 2, -1>>,
    <<887, 887, 1, -1>>, <<891, 893, 1, 130>>, <<940, 940, 1, -38>>, <<941, 943, 1, -37>>,
    <<945, 961, 1, -32>>, <<962, 962, 1, -31>>, <<963, 971, 1, -32>>, <<972, 972, 1, -64>>,
    <<973, 974, 1, -63>>, <<976, 976, 1, -62>>, <<977, 977, 1, -57>>, <<981, 981, 1, -47>>,
    <<982, 982, 1, -54>>, <<983, 983, 1, -8>>, <<985, 1007, 2, -1>>, <<1008, 1008, 1, -86>>,
    <<1009, 1009, 1, -80>>, <<1010, 1010, 1, 7>>, <<1011, 1011, 1, -116>>, <<1013, 1013, 1, -96>>,
    <<1016, 1016, 1, -1>>, <<1019, 1019, 1, -1>>, <<1072, 1103, 1, -32>>, <<1104, 1119, 1, -80>>,
    <<1121, 1153, 2, -1>>, <<1163, 1215, 2, -1>>, <<1218, 1230, 2, -1>>, <<1231, 1231, 1, -15>>,
    <<1233, 1327, 2, -1>>, <<1377, 1414, 1, -48>>, <<4304, 4346, 1, 3008>>, <<4349, 4351, 1, 3008>>,
    <<5112, 5117, 1, -8>>, <<7296, 7296, 1, -6254>>, <<7297, 7297, 1, -6253>>, <<7298, 7298, 1, -6244>>,
    <<7299, 7300, 1, -6242>>, <<7301, 7301, 1, -6243>>, <<7302, 7302, 1, -6236>>, <<7303, 7303, 1, -6181>>,
    <<7304, 7304, 1, 35266>>, <<7545, 7545, 1, 35332>>, <<7549, 7549, 1, 3814>>, <<7566, 7566, 1, 35384>>,
    <<7681, 7829, 2, -1>>, <<7835, 7835, 1, -59>>, <<7841, 7935, 2, -1>>, <<7936, 7943, 1, 8>>,
    <<7952, 7957, 1, 8>>, <<7968, 7975, 1, 8>>, <<7984, 7991, 1, 8>>, <<8000, 8005, 1, 8>>,
    <<8017, 8023, 2, 8>>, <<8032, 8039, 1, 8>>, <<8048, 8049, 1, 74>>, <<8050, 8053, 1, 86>>,
    <<8054, 8055, 1, 100>>, <<8056, 8057, 1, 128>>, <<8058, 8059, 1, 112>>, <<8060, 8061, 1, 126>>,
    <<8112, 8113, 1, 8>>, <<8126, 8126, 1, -7205>>, <<8144, 8145, 1, 8>>, <<8160, 8161, 1, 8>>,
    <<8165, 8165, 1, 7>>, <<8526, 8526, 1, -28>>, <<8560, 8575, 1, -16>>, <<8580, 8580, 1, -1>>,
    <<9424, 9449, 1, -26>>, <<11312, 11359, 1, -48>>, <<11361, 11361, 1, -1>>, <<11365, 11365, 1, -10795>>,
    <<11366, 11366, 1, -10792>>, <<11368, 11372, 2, -1>>, <<11379, 11379, 1, -1>>, <<11382, 11382, 1, -1>>,
    <<11393, 11491, 2, -1>>, <<11500, 11502, 2, -1>>, <<11507, 11507, 1, -1>>, <<11520, 11557, 1, -7264>>,
    <<11559, 11559, 1, -7264>>, <<11565, 11565, 1, -7264>>, <<42561, 42605, 2, -1>>, <<42625, 42651, 2, -1>>,
    <<42787, 42799, 2, -1>>, <<42803, 42863, 2, -1>>, <<42874, 42876, 2, -1>>, <<42879, 42887, 2, -1>>,
    <<42892, 42892, 1, -1>>, <<42897, 42899, 2, -1>>, <<42900, 42900, 1, 48>>, <<42903, 42921, 2, -1>>,
    <<42933, 42947, 2, -1>>, <<42952, 42954, 2, -1>>, <<42961, 42961, 1, -1>>, <<42967, 42969, 2, -1>>,
    <<42998, 42998, 1, -1>>, <<43859, 43859, 1, -928>>, <<43888, 43967, 1, -38864>>, <<65345, 65370, 1, -32>>,
    <<66600, 66639, 1, -40>>, <<66776, 66811, 1, -40>>, <<66967, 66977, 1, -39>>, <<66979, 66993, 1, -39>>,
    <<66995, 67001, 1, -39>>, <<67003, 67004, 1, -39>>, <<68800, 68850, 1, -64>>, <<71872, 71903, 1, -32>>,
    <<93792, 93823, 1, -32>>, <<125218, 125251, 1, -34>>>>

\* str.upper() of the characters whose capital is more than one character:
\* <<c, c, capital>>, in ascending order.
UpperSpecial == <<
    <<223, 223, <<83, 83>>>>, <<329, 329, <<700, 78>>>>, <<496, 496, <<74, 780>>>>,
    <<912, 912, <<921, 776, 769>>>>, <<944, 944, <<933, 776, 769>>>>, <<1415, 1415, <<1333, 1362>>>>,
    <<7830, 7830, <<72, 817>>>>, <<7831, 7831, <<84, 776>>>>, <<7832, 7832, <<87, 778>>>>,
    <<7833, 7833, <<89, 778>>>>, <<7834, 7834, <<65, 702>>>>, <<8016, 8016, <<933, 787>>>>,
    <<8018, 8018, <<933, 787, 768>>>>, <<8020, 8020, <<933, 787, 769>>>>, <<8022, 8022, <<933, 787, 834>>>>,
    <<8064, 8064, <<7944, 921>>>>, <<8065, 8065, <<7945, 921>>>>, <<8066, 8066, <<7946, 921>>>>,
    <<8067, 8067, <<7947, 921>>>>, <<8068, 8068, <<7948, 921>>>>, <<8069, 8069, <<7949, 921>>>>,
    <<8070, 8070, <<7950, 921>>>>, <<8071, 8071, <<7951, 921>>>>, <<8072, 8072, <<7944, 921>>>>,
    <<8073, 8073, <<7945, 921>>>>, <<8074, 8074, <<7946, 921>>>>, <<8075, 8075, <<7947, 921>>>>,
    <<8076, 8076, <<7948, 921>>>>, <<8077, 8077, <<7949, 921>>>>, <<8078, 8078, <<7950, 921>>>>,
    <<8079, 8079, <<7951, 921>>>>, <<8080, 8080, <<7976, 921>>>>, <<8081, 8081, <<7977, 921>>>>,
    <<8082, 8082, <<7978, 921>>>>, <<8083, 8083, <<7979, 921>>>>, <<8084, 8084, <<7980, 921>>>>,
    <<8085, 8085, <<7981, 921>>>>, <<8086, 8086, <<7982, 921>>>>, <<8087, 8087, <<7983, 921>>>>,
    <<8088, 8088, <<7976, 921>>>>, <<8089, 8089, <<7977, 921>>>>, <<8090, 8090, <<7978, 921>>>>,
    <<8091, 8091, <<7979, 921>>>>, <<8092, 8092, <<7980, 921>>>>, <<8093, 8093, <<7981, 921>>>>,
    <<8094, 8094, <<7982, 921>>>>, <<8095, 8095, <<7983, 921>>>>, <<8096, 8096, <<8040, 921>>>>,
    <<8097, 8097, <<8041, 921>>>>, <<8098, 8098, <<8042, 921>>>>, <<8099, 8099, <<8043, 921>>>>,
    <<8100, 8100, <<8044, 921>>>>, <<8101, 8101, <<8045, 921>>>>, <<8102, 8102, <<8046, 921>>>>,
    <<8103, 8103, <<8047, 921>>>>, <<8104, 8104, <<8040, 921>>>>, <<8105, 8105, <<8041, 921>>>>,
    <<8106, 8106, <<8042, 921>>>>, <<8107, 8107, <<8043, 921>>>>, <<8108, 8108, <<8044, 921>>>>,
    <<8109, 8109, <<8045, 921>>>>, <<8110, 8110, <<8046, 921>>>>, <<8111, 8111, <<8047, 921>>>>,
    <<8114, 8114, <<8122, 921>>>>, <<8115, 8115, <<913, 921>>>>, <<8116, 8116, <<902, 921>>>>,
    <<8118, 8118, <<913, 834>>>>, <<8119, 8119, <<913, 834, 921>>>>, <<8124, 8124, <<913, 921>>>>,
    <<8130, 8130, <<8138, 921>>>>, <<8131, 8131, <<919, 921>>>>, <<8132, 8132, <<905, 921>>>>,
    <<8134, 8134, <<919, 834>>>>, <<8135, 8135, <<919, 834, 921>>>>, <<8140, 8140, <<919, 921>>>>,
    <<8146, 8146, <<921, 776, 768>>>>, <<8147, 8147, <<921, 776, 769>>>>, <<8150, 8150, <<921, 834>>>>,
    <<8151, 8151, <<921, 776, 834>>>>, <<8162, 8162, <<933, 776, 768>>>>, <<8163, 8163, <<933, 776, 769>>>>,
    <<8164, 8164, <<929, 787>>>>, <<8166, 8166, <<933, 834>>>>, <<8167, 8167, <<933, 776, 834>>>>,
    <<8178, 8178, <<8186, 921>>>>, <<8179, 8179, <<937, 921>>>>, <<8180, 8180, <<911, 921>>>>,
    <<8182, 8182, <<937, 834>>>>, <<8183, 8183, <<937, 834, 921>>>>, <<8188, 8188, <<937, 921>>>>,
    <<64256, 64256, <<70, 70>>>>, <<64257, 64257, <<70, 73>>>>, <<64258, 64258, <<70, 76>>>>,
    <<64259, 64259, <<70, 70, 73>>>>, <<64260, 64260, <<70, 70, 76>>>>, <<64261, 64261, <<83, 84>>>>,
    <<64262, 64262, <<83, 84>>>>, <<64275, 64275, <<1348, 1350>>>>, <<64276, 64276, <<1348, 1333>>>>,
    <<64277, 64277, <<1348, 1339>>>>, <<64278, 64278, <<1358, 1350>>>>, <<64279, 64279, <<1348, 1341>>>>>>

\* str.upper() of the one-character string chr(cp), as code points
to_upper(cp) ==
    LET s == find_range(UpperSpecial, cp, 1, Len(UpperSpecial))
        r == find_range(UpperRanges, cp, 1, Len(UpperRanges))
    IN  IF s # 0 THEN UpperSpecial[s][3]
        ELSE IF r # 0 /\ (cp - UpperRanges[r][1]) % UpperRanges[r][3] = 0
        THEN <<cp + UpperRanges[r][4]>>
        ELSE <<cp>>

\* text.upper(): every character is replaced by its capital, which may be
\* longer than one character.
RECURSIVE upper(_)
upper(text) ==
    IF text = <<>> THEN <<>> ELSE to_upper(Head(text)) \o upper(Tail(text))

\* "  ".join(characters)
RECURSIVE join(_)
join(characters) ==
    IF Len(characters) <= 1 THEN characters
    ELSE <<Head(characters), 32, 32>> \o join(Tail(characters))

\* "  ".join(list(text.upper()))
spaced(text) == join(upper(text))

\* The title text: uppercase with letter spacing for a Latin-script name,
\* the name as it is otherwise.
spaced_city(display_city) ==
    IF is_latin_script(display_city) THEN spaced(display_city) ELSE display_city

\* scale_factor = min(height, width) / 12.0
scale_factor(width, height) == RDiv(RMin(height, width), R(12))

\* A title size without the lower limit of 10 * scale_factor.
adjusted_font_size_no_floor(city_char_count, sf) ==
    LET base_adjusted_main == RMul(R(60), sf)
    IN  IF city_char_count > 10
        THEN RMul(base_adjusted_main, RDiv(R(10), R(city_char_count)))
        ELSE base_adjusted_main

\* The main-title font size for a name of city_char_count characters.
adjusted_font_size(city_char_count, sf) ==
    LET base_adjusted_main == RMul(R(60), sf)
    IN  IF city_char_count > 10
        THEN RMax(RMul(base_adjusted_main, RDiv(R(10), R(city_char_count))),
                  RMul(R(10), sf))
        ELSE base_adjusted_main

\* The coordinate string f"{lat:.4f} N / {lon:.4f} E" with S for lat < 0
\* (printed as abs(lat)) and W for lon < 0 (lon printed with its sign).
coords_text(point) ==
    [lat |-> Abs(point[1]), ns |-> IF point[1] >= 0 THEN "N" ELSE "S",
     lon |-> point[2], ew |-> IF point[2] < 0 THEN "W" ELSE "E"]

\* One ax.text call; x and y are in hundredths of the axes, alpha and
\* zorder in tenths (alpha is 10 where the call passes none).
text_cmd(what, text, x, y, size, font, alpha) ==
    [cmd |-> "text", what |-> what, text |-> text, x |-> x, y |-> y,
     size |-> size, font |-> font, color |-> THEME["text"], alpha |-> alpha,
     zorder |-> 110]

\* The ax.plot call that draws the divider line under the title.
divider(sf) == [cmd |-> "line", linewidth |-> RMul(R(1), sf),
                color |-> THEME["text"], zorder |-> 110]

\* A typography block that ignores text_options and always emits the
\* keep_all texts.
typography_ignores_mode(text_options, display_city, display_country, point, width, height, fonts, FONTS) ==
    LET sf == scale_factor(width, height)
        active_fonts == IF fonts # None THEN fonts ELSE FONTS
        family == IF active_fonts # None THEN active_fonts[1] ELSE "monospace"
    IN  <<text_cmd("city", spaced_city(display_city), 50, 14,
                   adjusted_font_size(Len(display_city), sf), <<family, "bold">>, 10),
          text_cmd("country", upper(display_country),
                   50, 10, RMul(R(22), sf), <<family, "light">>, 10),
          text_cmd("coords", coords_text(point), 50, 7, RMul(R(14), sf),
                   <<family, "regular">>, 7),
          divider(sf),
          text_cmd("attribution", "(c) OpenStreetMap contributors", 98, 2, R(8),
                   <<family, "light">>, 5)>>

\* create_poster, from the scale factor to the attribution: the ax.text and
\* ax.plot calls, in call order.  fonts is the fonts argument, FONTS the
\* module's default fonts (None when they could not be loaded).
typography(text_options, display_city, display_country, point, width, height, fonts, FONTS) ==
    LET sf == scale_factor(width, height)
        active_fonts == IF fonts # None THEN fonts ELSE FONTS
        \* the fallback is the monospace family, bold for the title only
        face(style) == IF active_fonts # None THEN <<active_fonts[1], style>>
                       ELSE <<"monospace", IF style = "bold" THEN "bold" ELSE "normal">>
        font_sub == [face |-> face("light"), size |-> RMul(R(22), sf)]
        font_coords == [face |-> face("regular"), size |-> RMul(R(14), sf)]
        font_main == [face |-> face("bold"),
                      size |-> adjusted_font_size(Len(display_city), sf)]
        country == upper(display_country)
        city_cmd == text_cmd("city", spaced_city(display_city), 50, 14,
                             font_main.size, font_main.face, 10)
        body ==
            IF text_options = "keep_all"
            THEN <<city_cmd,
                   text_cmd("country", country, 50, 10, font_sub.size, font_sub.face, 10),
                   text_cmd("coords", coords_text(point), 50, 7,
                            font_coords.size, font_coords.face, 7),
                   divider(sf)>>
            ELSE IF text_options = "no_coords"
            THEN <<city_cmd,
                   text_cmd("country", country, 50, 10, font_sub.size, font_sub.face, 10),
                   divider(sf)>>
            ELSE IF text_options = "no_country"
            THEN <<city_cmd,
                   text_cmd("coords", coords_text(point), 50, 10,
                            font_coords.size, font_coords.face, 7),
                   divider(sf)>>
            ELSE IF text_options = "no_city_country"
            THEN <<text_cmd("coords", coords_text(point), 50, 14,
                            font_main.size, font_main.face, 7)>>
            ELSE <<>>
        \* font_attr is set again from FONTS with size=8 before it is used
        font_attr == [face |-> IF FONTS # None THEN <<FONTS[1], "light">>
                               ELSE <<"monospace", "normal">>,
                      size |-> R(8)]
    IN  body \o <<text_cmd("attribution", "(c) OpenStreetMap contributors", 98, 2,
                           font_attr.size, font_attr.face, 5)>>

\* display_city = display_city or name_label or city (name_label is never
\* passed by __main__); likewise for the country.  width is the variable
\* as the rail block left it.
CP_Typography ==
    /\ pc = "cp_typography"
    /\ LET display_city == IF inp.display_city # None /\ inp.display_city[1] # ""
                           THEN inp.display_city[1] ELSE inp.city
           display_country ==
               IF inp.display_country # None /\ inp.display_country[1] # ""
               THEN inp.display_country[1]
               ELSE IF inp.country_label # None /\ inp.country_label[1] # ""
               THEN inp.country_label[1] ELSE inp.country
       IN  draws' = draws \o typography(inp.text_options, chars(display_city),
                                        chars(display_country), coords[1],
                                        loc.width[1], R(inp.height), inp.fonts, inp.FONTS)
    /\ pc' = "cp_save"
    /\ UNCHANGED <<cache, lastCall, stored, inp, coords, themesLeft, now, reqLog,
                   osm, disk, loc, saved, err>>

\* plt.savefig(output_file, ...); plt.close(); back in the theme loop
CP_Save ==
    /\ pc = "cp_save"
    /\ saved' = saved + 1
    /\ pc' = "loop"
    /\ UNCHANGED <<cache, lastCall, stored, inp, coords, themesLeft, now, reqLog,
                   osm, disk, loc, draws, err>>

Next ==
    \/ MainExplicitCoords
    \/ MainGetCoordinates
    \/ MainNextTheme
    \/ MainComplete
    \/ CP_ZeroDivision
    \/ CP_FetchStreets
    \/ CP_FetchWater
    \/ CP_FetchParks
    \/ CP_FetchRailways
    \/ CP_Figure
    \/ CP_PlotWater
    \/ CP_PlotParks
    \/ CP_PlotEdges
    \/ CP_PlotRail
    \/ CP_LimitsAndGradients
    \/ CP_Typography
    \/ CP_Save

Spec == Init /\ [][Next]_vars

-----------------------------------------------------------------------------
(* SpecText: one call of a text function of the typography block:          *)
(* is_latin_script, the title text (spaced_city) or the title font size    *)
(* (adjusted_font_size).  As in SpecUtil the initial state holds the      *)
(* arguments and the action applies the function.                          *)

MaxTextLen == 5
MaxNameLen == 64

\* Sample characters: a, sharp s (capital "SS"), U+024F (the last Latin
\* Extended-B letter), U+0250 (the first letter beyond it), the Arabic
\* letter beh, the Thai letter ko kai, the Han character U+6771 and the
\* digit 1.
SampleChars == {97, 223, 591, 592, 1576, 3585, 26481, 49}

\* The texts of n sample characters.
SampleTexts(n) == [1..n -> SampleChars]

\* Scale factors: min(height, width) / 12 for the smaller dimensions 1..20
ScaleFactors == {scale_factor(R(d), R(20)) : d \in 1..20}

InitText ==
    /\ cache = <<>>
    /\ stored = <<>>
    /\ pc = "call"
    /\ \/ \E n \in 0..MaxTextLen : \E text \in SampleTexts(n) :
              \E op \in {"is_latin_script", "spaced_city"} :
                  lastCall = PureCall(op, text)
       \/ \E n \in 0..MaxNameLen : \E sf \in ScaleFactors :
              lastCall = PureCall("adjusted_font_size", <<n, sf>>)
    /\ PipelineIdle

CallIsLatinScript ==
    /\ pc = "call"
    /\ lastCall.op = "is_latin_script"
    /\ lastCall' = [lastCall EXCEPT !.ret = is_latin_script(lastCall.args)]
    /\ pc' = "returned"
    /\ UNCHANGED <<cache, stored, pipelineVars>>

CallSpacedCity ==
    /\ pc = "call"
    /\ lastCall.op = "spaced_city"
    /\ lastCall' = [lastCall EXCEPT !.ret = spaced_city(lastCall.args)]
    /\ pc' = "returned"
    /\ UNCHANGED <<cache, stored, pipelineVars>>

CallAdjustedFontSize ==
    /\ pc = "call"
    /\ lastCall.op = "adjusted_font_size"
    /\ lastCall' = [lastCall EXCEPT !.ret =
                        adjusted_font_size(lastCall.args[1], lastCall.args[2])]
    /\ pc' = "returned"
    /\ UNCHANGED <<cache, stored, pipelineVars>>

NextText == CallIsLatinScript \/ CallSpacedCity \/ CallAdjustedFontSize

SpecText == InitText /\ [][NextText]_vars

-----------------------------------------------------------------------------
(* Viewport claims (get_crop_limits).                                      *)

CropArgs == [point |-> lastCall.args[1], fig |-> lastCall.args[2],
             radius |-> lastCall.args[3]]
CropAspect == RDiv(CropArgs.fig[1], CropArgs.fig[2])
CropHalfX == RDiv(RSub(lastCall.ret[1][2], lastCall.ret[1][1]), R(2))
CropHalfY == RDiv(RSub(lastCall.ret[2][2], lastCall.ret[2][1]), R(2))
CropCenter == project_geometry(CropArgs.point[1], CropArgs.point[2], "utm")

\* C1 as stated: for radius > 0 and aspect > 0 the smaller of the two
\* half-extents of the returned viewport equals the requested radius.
C1_SmallerHalfExtentIsRadius ==
    (Returned("get_crop_limits") /\ RLt(R(0), CropArgs.radius))
        => RMin(CropHalfX, CropHalfY) = CropArgs.radius

\* C1 amended: for radius > 0 and aspect > 0 the LARGER half-extent equals
\* the requested radius; the smaller one is radius * aspect (aspect <= 1) or
\* radius / aspect (aspect > 1), hence never more than the radius and equal
\* to it only when aspect = 1.
C1_LargerHalfExtentIsRadius ==
    (Returned("get_crop_limits") /\ RLt(R(0), CropArgs.radius))
        => /\ RMax(CropHalfX, CropHalfY) = CropArgs.radius
           /\ RMin(CropHalfX, CropHalfY) =
                 RMul(CropArgs.radius, RMin(CropAspect, RDiv(R(1), CropAspect)))
           /\ (RMin(CropHalfX, CropHalfY) = CropArgs.radius) <=> (CropAspect = R(1))

\* C1 witness: a landscape call (aspect 4/3) with radius 7500 returned a
\* viewport whose vertical half-extent was cut below the radius.
C1_Witness ==
    /\ Returned("get_crop_limits")
    /\ CropArgs.radius = R(7500)
    /\ CropArgs.fig = <<R(16), R(12)>>
    /\ CropHalfX = R(7500)
    /\ CropHalfY = R(5625)

\* C2: for radius > 0 and aspect > 0 the returned viewport has
\* (x-max - x-min) / (y-max - y-min) = fig_width / fig_height, in both
\* branches, and its midpoint is the projected centre point.
C2_AspectAndCentre ==
    (Returned("get_crop_limits") /\ RLt(R(0), CropArgs.radius))
        => /\ RDiv(RSub(lastCall.ret[1][2], lastCall.ret[1][1]),
                   RSub(lastCall.ret[2][2], lastCall.ret[2][1])) = CropAspect
           /\ RDiv(RAdd(lastCall.ret[1][1], lastCall.ret[1][2]), R(2)) = CropCenter[1]
           /\ RDiv(RAdd(lastCall.ret[2][1], lastCall.ret[2][2]), R(2)) = CropCenter[2]

\* C2 witness: a portrait call (aspect 12/16 <= 1 branch) with a positive
\* radius returned a viewport narrower than tall, away from the origin.
C2_Witness ==
    /\ Returned("get_crop_limits")
    /\ CropArgs.radius = R(5000)
    /\ CropArgs.fig = <<R(12), R(16)>>
    /\ CropArgs.point = <<-33, 151>>
    /\ lastCall.ret = <<<<R(651000 - 3750), R(651000 + 3750)>>,
                        <<R(-33000 - 5000), R(-33000 + 5000)>>>>

-----------------------------------------------------------------------------
(* Classification claims (get_edge_colors_by_type, get_edge_widths_by_type) *)

\* The style table of section 6 of the specification: category ->
\* colour role and width (tenths).
StyleTable ==
    [c \in {"rail heavy", "rail light", "rail special", "rail service",
            "rail default", "motorway", "trunk/primary", "secondary",
            "tertiary", "residential", "default"} |->
        CASE c = "rail heavy"    -> [role |-> "rail_heavy", width |-> 10]
          [] c = "rail light"    -> [role |-> "rail_light", width |-> 8]
          [] c = "rail special"  -> [role |-> "rail_special", width |-> 6]
          [] c = "rail service"  -> [role |-> "rail_service", width |-> 4]
          [] c = "rail default"  -> [role |-> "rail_default", width |-> 5]
          [] c = "motorway"      -> [role |-> "road_motorway", width |-> 12]
          [] c = "trunk/primary" -> [role |-> "road_primary", width |-> 10]
          [] c = "secondary"     -> [role |-> "road_secondary", width |-> 8]
          [] c = "tertiary"      -> [role |-> "road_tertiary", width |-> 6]
          [] c = "residential"   -> [role |-> "road_residential", width |-> 4]
          [] c = "default"       -> [role |-> "road_default", width |-> 4]]

RailRow(v) ==
    CASE v \in {"rail", "subway"}                         -> "rail heavy"
      [] v \in {"light_rail", "tram"}                     -> "rail light"
      [] v \in {"narrow_gauge", "funicular", "monorail"}  -> "rail special"
      [] v \in {"service", "yard", "siding"}              -> "rail service"
      [] OTHER                                            -> "rail default"

HighwayRow(v) ==
    CASE v \in {"motorway", "motorway_link"}                          -> "motorway"
      [] v \in {"trunk", "trunk_link", "primary", "primary_link"}     -> "trunk/primary"
      [] v \in {"secondary", "secondary_link"}                        -> "secondary"
      [] v \in {"tertiary", "tertiary_link"}                          -> "tertiary"
      [] v \in {"residential", "living_street", "unclassified"}       -> "residential"
      [] OTHER                                                        -> "default"

\* The row the rule of section 4.5 selects for a tag bag.
SelectedRow(data) ==
    IF Len(data.railway.v) > 0 THEN RailRow(Head(data.railway.v))
    ELSE IF Len(data.highway.v) > 0 THEN HighwayRow(Head(data.highway.v))
    ELSE HighwayRow("unclassified")

\* C5: for every tag bag the colour of get_edge_colors_by_type is the theme
\* colour of the role, and the width of get_edge_widths_by_type the width,
\* of the style-table row selected by "railway first (first list element,
\* empty list = absent), else highway (missing = unclassified)"; the result
\* has one entry per edge, in edge order.
C5_StyleMatchesTable ==
    /\ Returned("get_edge_colors_by_type") =>
          /\ DOMAIN lastCall.ret = 1..Len(lastCall.args)
          /\ \A i \in 1..Len(lastCall.args) :
                lastCall.ret[i] = THEME[StyleTable[SelectedRow(lastCall.args[i])].role]
    /\ Returned("get_edge_widths_by_type") =>
          /\ DOMAIN lastCall.ret = 1..Len(lastCall.args)
          /\ \A i \in 1..Len(lastCall.args) :
                lastCall.ret[i] = StyleTable[SelectedRow(lastCall.args[i])].width

\* C5 witness: the widths of a two-edge graph, a railway: [subway, service]
\* edge (rail wins, first element) followed by a tram edge that also carries
\* highway: motorway, came back as <<1.0, 0.8>>.
C5_Witness ==
    /\ Returned("get_edge_widths_by_type")
    /\ lastCall.args = <<[railway |-> List(<<"subway", "service">>), highway |-> Absent],
                         [railway |-> Scalar("tram"), highway |-> Scalar("motorway")]>>
    /\ lastCall.ret = <<10, 8>>

-----------------------------------------------------------------------------
(* Cache and fetch claims (fetch_graph, fetch_features, get_coordinates).  *)

\* C7: once a fetch_graph / fetch_features call has fetched remotely and
\* stored its payload, every later call with the same arguments returns that
\* stored payload, issues no remote request, sleeps for no time, makes no
\* cache write and leaves the cache as it was, whatever calls came between.
C7_RepeatServedFromCache ==
    [][\A a \in DOMAIN stored :
          (IsFetch(lastCall') /\ lastCall'.args = a)
              => /\ lastCall'.ret = Some(stored[a])
                 /\ lastCall'.requests = 0
                 /\ lastCall'.slept = 0
                 /\ lastCall'.sets = 0
                 /\ lastCall'.raised = None
                 /\ cache' = cache]_vars

\* C7 witness: fetch_features for the water filter was answered from the
\* cache (no request, no sleep, no write) with the payload an earlier call
\* stored, while other keys (a graph, the parks) are cached as well.
C7_Witness ==
    /\ lastCall.op = "fetch_features"
    /\ lastCall.args = <<"fetch_features", <<48, 2>>, R(2500), WaterTags, "water">>
    /\ lastCall.args \in DOMAIN stored
    /\ lastCall.ret = Some(stored[lastCall.args])
    /\ lastCall.requests = 0
    /\ <<"fetch_graph", <<48, 2>>, R(2500)>> \in DOMAIN stored
    /\ <<"fetch_features", <<48, 2>>, R(2500), ParksTags, "parks">> \in DOMAIN stored

\* C8: when the remote request of fetch_graph / fetch_features fails, the
\* call returns None, raises nothing, and the cache is unchanged; and the
\* next call with the same arguments issues the remote request again.
C8_FailureReturnsAbsent ==
    [][/\ (IsFetch(lastCall') /\ lastCall'.remote_failed)
              => /\ lastCall'.ret = None
                 /\ lastCall'.raised = None
                 /\ lastCall'.sets = 0
                 /\ cache' = cache
       /\ (IsFetch(lastCall) /\ lastCall.remote_failed /\ lastCall'.op = lastCall.op
              /\ lastCall'.args = lastCall.args)
              => lastCall'.requests = 1]_vars

\* C8 witness: a fetch_graph request failed although other entries were
\* cached; it returned None and its key is not in the cache.
C8_Witness ==
    /\ lastCall.op = "fetch_graph"
    /\ lastCall.remote_failed
    /\ lastCall.ret = None
    /\ lastCall.args = <<"fetch_graph", <<48, 2>>, R(10000)>>
    /\ <<"graph", 48, 2, R(10000)>> \notin DOMAIN cache
    /\ <<"graph", 48, 2, R(2500)>> \in DOMAIN cache

-----------------------------------------------------------------------------
(* Claims about a poster run (create_poster).                              *)

\* Half-extents of the viewport applied with ax.set_xlim / ax.set_ylim.
AppliedHalfX == RDiv(RSub(loc.xlim[1][2], loc.xlim[1][1]), R(2))
AppliedHalfY == RDiv(RSub(loc.ylim[1][2], loc.ylim[1][1]), R(2))

\* C3: in a poster run with requested radius R > 0 and figure width W <
\* height H, the viewport applied to the axes has vertical half-extent R and
\* horizontal half-extent R * W / H (R = 10000, W = 12, H = 16: 7500 and
\* 10000).
C3_PortraitViewportCoversRadius ==
    (loc.xlim # None /\ loc.ylim # None /\ inp.distance > 0
        /\ 0 < inp.width /\ inp.width < inp.height)
        => /\ AppliedHalfY = R(inp.distance)
           /\ AppliedHalfX = RDiv(RMul(R(inp.distance), R(inp.width)), R(inp.height))

\* C4: a request with a non-positive radius, width or height is rejected
\* before any network-graph or feature request is issued, and no viewport is
\* ever computed for it.
C4_InvalidRequestRejectedBeforeFetch ==
    (inp.distance <= 0 \/ inp.width <= 0 \/ inp.height <= 0)
        => /\ \A i \in 1..Len(reqLog) : reqLog[i].kind \notin {"graph", "features"}
           /\ loc.g = None
           /\ loc.crop = None

\* C6: every rail line group is drawn with the colour role and with the line
\* width of the style-table row of its railway subtype.
C6_RailGroupsFollowStyleTable ==
    \A i \in 1..Len(draws) :
        draws[i].cmd = "rail"
            => /\ draws[i].color = THEME[StyleTable[RailRow(draws[i].railway)].role]
               /\ draws[i].linewidth = Some(StyleTable[RailRow(draws[i].railway)].width)

\* C10: in every run, at least 0.5 time units pass between a remote request
\* of fetch_graph and the next remote request, and at least 0.3 after a
\* remote request of fetch_features, whatever the outcome of each request.
C10_DelayAfterEveryRequest ==
    \A i \in 1..(Len(reqLog) - 1) :
        /\ reqLog[i].kind = "graph" => reqLog[i + 1].t - reqLog[i].t >= GraphDelay
        /\ reqLog[i].kind = "features" => reqLog[i + 1].t - reqLog[i].t >= FeaturesDelay

-----------------------------------------------------------------------------
(* Claims about absent layers in a poster run.                             *)

\* The remote feature requests in a request log.
FeatureRequestsIn(log) == SelectSeq(log, LAMBDA r : r.kind = "features")

\* C11: whenever fetch_graph returns None, create_poster aborts with
\* RuntimeError in that very step: no water/parks/railways fetch has been
\* made by this call (its locals are unset, no feature request is added),
\* no draw command has been emitted and no file is saved; and nothing runs
\* after the abort.
C11_AbsentNetworkIsFatal ==
    [][/\ (pc = "cp_streets" /\ pc' # "cp_streets" /\ loc'.g = None)
              => /\ pc' = "exit1"
                 /\ err' \in {"RuntimeError", "ZeroDivisionError"}
                 /\ (Min(inp.height, inp.width) # 0 => err' = "RuntimeError")
                 /\ loc'.water = None /\ loc'.parks = None /\ loc'.railways = None
                 /\ FeatureRequestsIn(reqLog') = FeatureRequestsIn(reqLog)
                 /\ draws' = <<>>
                 /\ saved' = saved
       /\ pc # "exit1"]_vars

\* C11 witness: the network request of the second poster failed (nothing
\* had been cached), the run ended with RuntimeError, the second poster has
\* no draw command and only the first poster was saved.
C11_Witness ==
    /\ pc = "exit1"
    /\ err = "RuntimeError"
    /\ loc.g = None
    /\ draws = <<>>
    /\ saved = 1
    /\ reqLog[Len(reqLog)] = Request("graph", now, FALSE)

\* The statement groups of create_poster that follow a successful network
\* fetch.
AfterStreets == {"cp_water", "cp_parks", "cp_railways", "cp_figure", "cp_plot_water",
                 "cp_plot_parks", "cp_plot_edges", "cp_plot_rail", "cp_limits",
                 "cp_typography", "cp_save"}

\* The commands of one kind among the draw commands.
Drawn(cmd) == SelectSeq(draws, LAMBDA d : d.cmd = cmd)

\* A fetched collection is drawable when it is present and holds at least
\* one geometry of the layer's types.
Drawable(gdf, types) == gdf # None /\ of_type(gdf[1], types) # <<>>

\* The fetch_features call made in a step either was answered from the
\* cache (a payload, no request) or issued one remote request.
LayerFetched(name) ==
    \/ reqLog' = reqLog /\ loc'[name] # None
    \/ Len(reqLog') = Len(reqLog) + 1 /\ reqLog'[Len(reqLog')].kind = "features"

\* C12: once the network fetch has succeeded, create_poster never aborts,
\* whatever water, parks and railways turn out to be (None or a
\* collection): each of the three is fetched in turn whatever the others
\* returned, and the poster that is saved holds the water, parks and rail
\* commands of exactly the collections that are present and have a geometry
\* of the layer's type (one command for water, one for parks, one per
\* railway subtype), none for the others.
C12_AbsentOptionalLayerIsSkipped ==
    [][/\ pc \in AfterStreets => pc' \in AfterStreets \cup {"loop"}
       /\ pc = "cp_water" => pc' = "cp_parks" /\ LayerFetched("water")
       /\ pc = "cp_parks" => pc' = "cp_railways" /\ LayerFetched("parks")
       /\ pc = "cp_railways" => pc' = "cp_figure" /\ LayerFetched("railways")
       /\ pc = "cp_save"
             => /\ saved' = saved + 1
                /\ pc' = "loop"
                /\ Len(Drawn("water")) =
                       (IF Drawable(loc.water, {"Polygon", "MultiPolygon"}) THEN 1 ELSE 0)
                /\ Len(Drawn("parks")) =
                       (IF Drawable(loc.parks, {"Polygon", "MultiPolygon"}) THEN 1 ELSE 0)
                /\ (Drawn("rail") # <<>>)
                       = Drawable(loc.railways, {"LineString", "MultiLineString"})
                /\ \A i \in 1..Len(Drawn("rail")) :
                       \E f \in {loc.railways[1][j] : j \in 1..Len(loc.railways[1])} :
                           /\ f.railway = Drawn("rail")[i].railway
                           /\ f.geom \in {"LineString", "MultiLineString"}
                /\ Len(Drawn("edges")) = 1]_vars

\* C12 witness: a poster was saved with the parks layer only: the water and
\* railways fetches returned None, the parks fetch returned polygons.
C12_Witness ==
    /\ pc = "loop"
    /\ saved = 1
    /\ loc.g # None
    /\ loc.water = None
    /\ loc.railways = None
    /\ Drawable(loc.parks, {"Polygon", "MultiPolygon"})
    /\ Len(Drawn("parks")) = 1
    /\ Drawn("water") = <<>>
    /\ Drawn("rail") = <<>>

-----------------------------------------------------------------------------
(* Geocoder failures (get_coordinates).                                    *)

\* The last call was a get_coordinates call that asked the service and got
\* no location from it.
GeocodeFailed ==
    lastCall.op = "get_coordinates" /\ lastCall.requests = 1 /\ lastCall.fetched = None

\* What get_coordinates does for the arguments of the last call, on the
\* present cache, when geolocator.geocode behaves as kind says.
GeocodeOutcome(kind) ==
    get_coordinates(cache, lastCall.args[1], lastCall.args[2],
                    [kind |-> kind, data |-> <<48, 2>>, exc |-> "ConnectionError"], TRUE)

\* The class of the exception a call raised.
ErrorClass(r) == r.raised[1][1]

\* C13: a get_coordinates call whose lookup failed returns no coordinates
\* and stores nothing in the cache; and the exception class it raises when
\* geolocator.geocode raised (service failure) differs from the class it
\* raises when the service answered without a match (place not found), so
\* that the class tells the two failures apart (whether geocode answers
\* directly or through a coroutine).
C13_GeocoderErrorsAreDistinct ==
    GeocodeFailed
        => /\ lastCall.ret = None
           /\ lastCall.raised # None
           /\ coords_key(lastCall.args[1], lastCall.args[2]) \notin DOMAIN cache
           /\ \A unreachable \in {"raise", "coro_raise"}, notFound \in {"none", "coro_none"} :
                  ErrorClass(GeocodeOutcome(unreachable)) # ErrorClass(GeocodeOutcome(notFound))

-----------------------------------------------------------------------------
(* Draw order of a poster.                                                 *)

\* The place of each kind of draw command in the order of the layers.
LayerRank(cmd) ==
    CASE cmd = "background" -> 0
      [] cmd = "water"      -> 1
      [] cmd = "parks"      -> 2
      [] cmd = "edges"      -> 3
      [] cmd = "rail"       -> 4
      [] cmd = "gradient"   -> 5
      [] cmd \in {"text", "line"} -> 6

\* C15: at every moment of a poster run the draw commands emitted so far
\* are in the order background, water polygons, park polygons, network
\* edges, rail lines, gradient fades (bottom, then top), typography, absent
\* layers being left out; the z-order never decreases along the sequence,
\* and it is strictly higher for parks than for water, for edges and rail
\* than for parks, for the gradients than for edges and rail, and for the
\* text than for the gradients.
C15_DrawOrder ==
    /\ draws # <<>> => draws[1].cmd = "background"
    /\ \A i \in 1..(Len(draws) - 1) :
          /\ LayerRank(draws[i].cmd) <= LayerRank(draws[i + 1].cmd)
          /\ draws[i].zorder <= draws[i + 1].zorder
          /\ (LayerRank(draws[i].cmd) < LayerRank(draws[i + 1].cmd)
                 /\ {draws[i].cmd, draws[i + 1].cmd} # {"edges", "rail"})
                => draws[i].zorder < draws[i + 1].zorder
    /\ \A cmd \in {"background", "water", "parks", "edges"} : Len(Drawn(cmd)) <= 1
    /\ Len(Drawn("gradient")) \in {0, 2}
    /\ Len(Drawn("gradient")) = 2
          => Drawn("gradient")[1].location = "bottom" /\ Drawn("gradient")[2].location = "top"
    /\ pc = "cp_save"
          => /\ Len(Drawn("background")) = 1
             /\ Len(Drawn("edges")) = 1
             /\ Len(Drawn("gradient")) = 2
             /\ draws[Len(draws)].cmd = "text"

\* C15 witness: a poster about to be saved that has every layer: water,
\* parks, edges, several rail groups, both gradients and the text block.
C15_Witness ==
    /\ pc = "cp_save"
    /\ Len(Drawn("water")) = 1
    /\ Len(Drawn("parks")) = 1
    /\ Len(Drawn("edges")) = 1
    /\ Len(Drawn("rail")) > 1
    /\ Len(Drawn("gradient")) = 2
    /\ Len(Drawn("text")) = 4
    /\ inp.text_options = "keep_all"

-----------------------------------------------------------------------------
(* Typography claims (create_poster, text block).                          *)

\* The characters of the city name the poster displays.
DisplayedCity ==
    IF inp.display_city # None THEN chars(inp.display_city[1]) ELSE chars(inp.city)

\* The ax.text commands of one element among the draw commands.
Texts(what) == SelectSeq(draws, LAMBDA d : d.cmd = "text" /\ d.what = what)

\* The number of ax.text commands among the draw commands.
NumTexts == Len(SelectSeq(draws, LAMBDA d : d.cmd = "text"))

\* The elements each text mode emits, besides the attribution.
ModeElements(mode) ==
    CASE mode = "keep_all"        -> {"city", "country", "coords"}
      [] mode = "no_coords"       -> {"city", "country"}
      [] mode = "no_country"      -> {"city", "coords"}
      [] mode = "no_city_country" -> {"coords"}
      [] mode = "clear_all"       -> {}

\* C14: when the text block has run, the poster holds exactly one text
\* command for each element of its text mode (keep_all: city, country,
\* coordinates; no_coords: city, country; no_country: city, coordinates;
\* no_city_country: the coordinates alone, at the title position and in the
\* size the title has at the scale factor of the poster; clear_all: none), no other city/country/coordinates
\* text, and exactly one attribution line.
C14_TextModeElements ==
    pc = "cp_save"
        => /\ \A what \in {"city", "country", "coords"} :
                  Len(Texts(what)) = (IF what \in ModeElements(inp.text_options) THEN 1 ELSE 0)
           /\ Len(Texts("attribution")) = 1
           /\ NumTexts = Cardinality(ModeElements(inp.text_options)) + 1
           /\ inp.text_options = "no_city_country"
                  => /\ Texts("coords")[1].y = 14
                     /\ Texts("coords")[1].size =
                            adjusted_font_size(Len(DisplayedCity),
                                               scale_factor(loc.width[1], R(inp.height)))

\* C14 witness: a no_city_country poster about to be saved: its only texts
\* are the coordinates, at the title position, and the attribution.
C14_Witness ==
    /\ pc = "cp_save"
    /\ inp.text_options = "no_city_country"
    /\ Len(Texts("coords")) = 1
    /\ Texts("coords")[1].y = 14
    /\ Texts("city") = <<>>
    /\ Texts("country") = <<>>
    /\ Len(Texts("attribution")) = 1

\* The base size of a text command: the size the element has at the
\* reference dimension of 12 inches (scale factor 1).  The title's base is
\* 60 reduced for names of more than 10 characters; the coordinates take the
\* title's base when they stand in the title slot.
BaseSize(d) ==
    LET title == adjusted_font_size(Len(DisplayedCity), R(1))
    IN  CASE d.what = "city"        -> title
          [] d.what = "country"     -> R(22)
          [] d.what = "coords"      -> IF inp.text_options = "no_city_country"
                                       THEN title ELSE R(14)
          [] d.what = "attribution" -> R(8)

\* C16: every text command of the poster (city title, country,
\* coordinates, attribution) has the font size base * min(width, height) /
\* 12, base being fixed for the element, for every figure size and font
\* configuration.
C16_TextSizesScale ==
    \A i \in 1..Len(draws) :
        draws[i].cmd = "text"
            => draws[i].size = RMul(BaseSize(draws[i]),
                                 scale_factor(R(inp.width), R(inp.height)))

-----------------------------------------------------------------------------
(* Script detection and title size (SpecText).                             *)

\* The positions of the alphabetic characters of a text, and of those
\* below U+0250.
AlphaAt(text) == {i \in 1..Len(text) : isalpha(text[i])}
LatinAt(text) == {i \in AlphaAt(text) : text[i] < 592}

\* C17: is_latin_script returns TRUE exactly when the text has no
\* alphabetic character (the empty text included) or strictly more than 80%
\* of its alphabetic characters are below U+0250; and the title text is the
\* name in capitals with two spaces between consecutive characters exactly
\* when is_latin_script is TRUE for the name (the capitals being those of
\* str.upper(), where one letter may have a capital of two characters), the
\* unchanged name otherwise.
C17_LatinScriptAndTitle ==
    /\ Returned("is_latin_script")
          => LET text == lastCall.args
             IN  lastCall.ret = (\/ AlphaAt(text) = {}
                                 \/ 5 * Cardinality(LatinAt(text)) > 4 * Cardinality(AlphaAt(text)))
    /\ Returned("spaced_city")
          => LET text == lastCall.args
                 title == lastCall.ret
                 capitals == upper(text)
             IN  IF is_latin_script(text)
                 THEN /\ Len(title) = (IF capitals = <<>> THEN 0 ELSE 3 * Len(capitals) - 2)
                      /\ \A i \in 1..Len(title) :
                             title[i] = (IF i % 3 = 1 THEN capitals[(i + 2) \div 3] ELSE 32)
                 ELSE title = text

\* C17 witness: four Latin letters and one Han character, exactly 80% Latin,
\* were found not to be Latin script.
C17_Witness ==
    /\ Returned("is_latin_script")
    /\ lastCall.args = <<97, 223, 591, 97, 26481>>
    /\ lastCall.ret = FALSE

\* The title size of a name of n characters at scale factor sf as the
\* claim gives it: base for n <= 10, max(base * 10 / n, minimum) beyond.
TitleSize(n, sf) ==
    LET base == RMul(R(60), sf)
        minimum == RMul(R(10), sf)
    IN  IF n <= 10 THEN base
        ELSE RMax(RDiv(RMul(base, R(10)), R(n)), minimum)

\* C18: adjusted_font_size is 60 * scale_factor for a name of at most 10
\* characters and max(base * 10 / n, 10 * scale_factor) for a name of n > 10
\* characters: base for 5 characters, base * 10 / 20 for 20; it never
\* increases with n and is never below 10 * scale_factor.
C18_TitleSize ==
    Returned("adjusted_font_size")
        => LET n == lastCall.args[1]
               sf == lastCall.args[2]
               size == lastCall.ret
           IN  /\ size = TitleSize(n, sf)
               /\ n = 5 => size = RMul(R(60), sf)
               /\ n = 20 => size = RMul(R(30), sf)
               /\ RLe(TitleSize(n + 1, sf), size)
               /\ RLe(RMul(R(10), sf), size)

\* C18 witness: a name of 64 characters at the reference size got the
\* minimum size 10, not 60 * 10 / 64.
C18_Witness ==
    /\ Returned("adjusted_font_size")
    /\ lastCall.args = <<64, R(1)>>
    /\ lastCall.ret = R(10)

====
